---------------------------- MODULE Spec2Model ----------------------------
(***************************************************************************)
(* Verification model of the pump simulator's numerical engine             *)
(* (byunilhwang/ai-pump-simulator): the power model, the transient         *)
(* response engine and the control-metrics extractor.                      *)
(*                                                                         *)
(* Number representation.                                                  *)
(*   - Real-valued quantities (kW, ratios, percentages) are decimal fixed  *)
(*     point with four fractional digits: the integer n stands for         *)
(*     n / ONE.  Products are divided by ONE with \div, which truncates    *)
(*     towards minus infinity.                                             *)
(*     Flows given to the engine are fixed point too; the values a time    *)
(*     series carries after Math.round(x * 100) / 100 are integers in      *)
(*     hundredths.                                                         *)
(*   - The loop variable t of the simulation loops is an IEEE-754 double   *)
(*     (see the section "Binary64 arithmetic"): its additions are rounded  *)
(*     exactly as the JavaScript engine rounds them, because the number of *)
(*     samples a loop emits depends on that rounding.                      *)
(***************************************************************************)
EXTENDS Integers, Sequences, FiniteSets, TLC

VARIABLES
    pwIn,       \* power model: the arguments of the call under analysis
    pwOut,      \* power model: the value returned by the last call
    simIn,      \* simulation: the params object of the call under analysis
    simPc,      \* simulation: where the call stands (call, the loops, done)
    simLoc,     \* simulation: the constants computed before the loop
    t,          \* simulation: the loop variable, a double
    timeSeries, \* simulateTransient: the array being filled
    caseA,      \* simulateCaseComparison: the three arrays being filled
    caseB,
    caseC,
    simOut,     \* simulation: the scalar fields of the returned object
    mtIn,       \* metrics: the arguments of the call under analysis
    mtOut,      \* metrics: the value returned by the last call
    cvIn,       \* curve fitting: the points array of the call under analysis
    cvOut,      \* curve fitting: the value returned by the last call
    route,      \* POST /api/calculate/roi: the request body and the response
    page,       \* simulation page: inputs, debounce timer, requests, display
    shell       \* desktop shell: server process, polling, window, app state

pwVars == <<pwIn, pwOut>>
simVars == <<simIn, simPc, simLoc, t, timeSeries, caseA, caseB, caseC, simOut>>
mtVars == <<mtIn, mtOut>>
cvVars == <<cvIn, cvOut>>
appVars == <<route, page, shell>>
vars == <<pwVars, simVars, mtVars, cvVars, appVars>>

\* An optional argument is <<>> when omitted and <<v>> when passed;
\* OrElse is the ?? operator.
OrElse(opt, default) == IF opt = <<>> THEN default ELSE opt[1]

\* The values each part holds while the caller is using another part.
PowerIdle ==
    /\ pwIn = [ variant |-> 9, targetFlow |-> 0, ratedFlow |-> 0 ]
    /\ pwOut = [ op |-> "none" ]

SimIdle ==
    /\ simIn = [ fn |-> "none" ]
    /\ simPc = "idle"
    /\ simLoc = [ fn |-> "none" ]
    /\ t = <<0, 0, 0, 0>>
    /\ timeSeries = <<>>
    /\ caseA = <<>>
    /\ caseB = <<>>
    /\ caseC = <<>>
    /\ simOut = [ op |-> "none" ]

MetricsIdle ==
    /\ mtIn = [ fn |-> "none" ]
    /\ mtOut = [ op |-> "none" ]

CurvesIdle ==
    /\ cvIn = <<>>
    /\ cvOut = [ op |-> "none" ]

RouteIdle == route = [ phase |-> "idle" ]
PageIdle == page = [ phase |-> "idle" ]
ShellIdle == shell = [ phase |-> "idle" ]

AppIdle ==
    /\ RouteIdle
    /\ PageIdle
    /\ ShellIdle

---------------------------------------------------------------------------
(* Fixed-point helpers                                                     *)

ONE == 10^4         \* 1.0 in fixed point

Min(a, b) == IF a <= b THEN a ELSE b
Max(a, b) == IF a >= b THEN a ELSE b
Abs(a) == IF a < 0 THEN -a ELSE a

\* a * b with both factors in fixed point: floor(a * b / ONE), computed
\* without an intermediate product beyond 32 bits
Mul(a, b) ==
    (a \div ONE) * b + (a % ONE) * (b \div ONE) + ((a % ONE) * (b % ONE)) \div ONE

\* a / b with both operands in fixed point: floor(a * ONE / b) for b > 0
Div(a, b) ==
    LET q == (a * 100) \div b
        r == (a * 100) % b
    IN  q * 100 + (r * 100) \div b

\* Math.round(x * 100) / 100 of a fixed-point x, in hundredths
Round2(x) == (x + 50) \div 100

\* Math.pow(x, 3) of a fixed-point x
Pow3(x) == Mul(Mul(x, x), x)

---------------------------------------------------------------------------
(* Constant tables                                                         *)

\* src/unnamed/part_007: VALVE_STAGES, nine measured stages (flow, power)
VALVE_STAGES ==
    << [flow |->      0, power |->  55000],
       [flow |->  60000, power |->  79100],
       [flow |-> 118000, power |-> 104800],
       [flow |-> 148000, power |-> 115500],
       [flow |-> 162000, power |-> 119600],
       [flow |-> 181000, power |-> 125500],
       [flow |-> 198000, power |-> 128800],
       [flow |-> 223000, power |-> 133700],
       [flow |-> 243000, power |-> 135900] >>

\* src/workspace/lib/constants.ts: VALVE_STAGES, seven stages (flow, power)
VALVE_STAGES_7 ==
    << [flow |->      0, power |->  55000],
       [flow |->  50000, power |->  75000],
       [flow |-> 110000, power |-> 104000],
       [flow |-> 150000, power |-> 119000],
       [flow |-> 180000, power |-> 125000],
       [flow |-> 210000, power |-> 132000],
       [flow |-> 250000, power |-> 136000] >>

\* PUMP_RATED (part_007)
PUMP_RATED_FLOW == 205000
PUMP_RATED_POWER == 128800

\* EFFICIENCY (part_007)
VFD_DRIVE == 9700
PID_OVERHEAD == 10500
MOTOR_POINTS ==
    << [load |->     0, efficiency |-> 7500],
       [load |->  2500, efficiency |-> 8500],
       [load |->  5000, efficiency |-> 9000],
       [load |->  7500, efficiency |-> 9300],
       [load |-> 10000, efficiency |-> 9200] >>
LOAD_100 == 9200

\* POWER_MODEL of the nine-stage variant (part_005)
FIXED_LOSS_AI == (PUMP_RATED_POWER * 18) \div 100
FIXED_LOSS_PID == (PUMP_RATED_POWER * 20) \div 100
MIN_SAVING_AI == 200
MIN_SAVING_PID == 100

\* POWER_MODEL of the seven-stage variant (lib/energy-calculations.ts)
FIXED_LOSS_AI_7 == 12200
FIXED_LOSS_PID_7 == 14700
RATED_FLOW_7 == 250000
BLEND_AI == 4000
BLEND_CAP == 6000

---------------------------------------------------------------------------
(* Power model                                                             *)

\* Linear interpolation over a stage table: the first segment i with
\* stages[i].flow <= flow <= stages[i+1].flow decides; beyond the table the
\* last stage's power is returned.
Interpolate(stages, flow) ==
    LET hit == { i \in 1..(Len(stages) - 1) :
                    flow >= stages[i].flow /\ flow <= stages[i + 1].flow }
    IN  IF hit = {}
        THEN stages[Len(stages)].power
        ELSE LET i == CHOOSE j \in hit : \A k \in hit : j <= k
             IN  stages[i].power
                   + ((flow - stages[i].flow) * (stages[i + 1].power - stages[i].power))
                        \div (stages[i + 1].flow - stages[i].flow)

\* A plausible slip: the last segment's slope is continued beyond the table.
GetValvePowerExtrapolating(stages, targetFlow) ==
    LET n == Len(stages)
    IN  IF targetFlow <= 0 THEN stages[1].power
        ELSE IF targetFlow > stages[n].flow
        THEN stages[n - 1].power
               + ((targetFlow - stages[n - 1].flow) * (stages[n].power - stages[n - 1].power))
                    \div (stages[n].flow - stages[n - 1].flow)
        ELSE Interpolate(stages, targetFlow)

getValvePower(stages, targetFlow) ==
    LET flow == Max(targetFlow, 0)
    IN  IF flow <= 0 THEN stages[1].power ELSE Interpolate(stages, flow)

\* Math.min(targetFlow / ratedFlow, 1); a zero ratedFlow divides a positive
\* flow to +Infinity, which Math.min brings back to 1.
FlowRatio(targetFlow, ratedFlow) ==
    IF ratedFlow = 0 THEN ONE ELSE Min(Div(targetFlow, ratedFlow), ONE)

\* A plausible slip: the load ratio is looked up without the clamp.
MotorEfficiencyUnclamped(loadRatio) ==
    LET points == MOTOR_POINTS
        hit == { i \in 1..(Len(points) - 1) :
                    loadRatio >= points[i].load /\ loadRatio <= points[i + 1].load }
    IN  IF hit = {}
        THEN LOAD_100
        ELSE LET i == CHOOSE j \in hit : \A k \in hit : j <= k
             IN  points[i].efficiency
                   + ((loadRatio - points[i].load)
                        * (points[i + 1].efficiency - points[i].efficiency))
                        \div (points[i + 1].load - points[i].load)

getMotorEfficiency(loadRatio) ==
    LET points == MOTOR_POINTS
        clampedRatio == Max(0, Min(ONE, loadRatio))
        hit == { i \in 1..(Len(points) - 1) :
                    clampedRatio >= points[i].load /\ clampedRatio <= points[i + 1].load }
    IN  IF hit = {}
        THEN LOAD_100
        ELSE LET i == CHOOSE j \in hit : \A k \in hit : j <= k
             IN  points[i].efficiency
                   + ((clampedRatio - points[i].load)
                        * (points[i + 1].efficiency - points[i].efficiency))
                        \div (points[i + 1].load - points[i].load)

\* totalPower of the nine-stage variant: fixed loss plus affinity-law cube,
\* divided by the drive and motor efficiencies (part_005, lines 678-698).
TotalPower(targetFlow, ratedFlow) ==
    LET fixedLoss == FIXED_LOSS_AI
        ratedPower == PUMP_RATED_POWER
        flowRatio == FlowRatio(targetFlow, ratedFlow)
        variablePower == Mul(ratedPower - fixedLoss, Pow3(flowRatio))
        basePower == fixedLoss + variablePower
        loadRatio == Div(basePower, ratedPower)
        motorEfficiency == getMotorEfficiency(loadRatio)
        efficiencyFactor == Div(ONE, Mul(VFD_DRIVE, motorEfficiency))
    IN  Mul(basePower, efficiencyFactor)

\* A plausible slip: the valve-relative cap is left out.
InverterPowerUncapped(targetFlow, ratedFlow) ==
    IF targetFlow <= 0 THEN FIXED_LOSS_AI ELSE TotalPower(targetFlow, ratedFlow)

\* A plausible slip: the zero-flow guard is left out, so that a zero flow is
\* priced by the formula instead of the fixed-loss constant.
InverterPowerNoZeroGuard(targetFlow, ratedFlow) ==
    Min(TotalPower(Max(targetFlow, 0), ratedFlow),
        Mul(getValvePower(VALVE_STAGES, targetFlow), ONE - MIN_SAVING_AI))

\* calculateInverterPower of the nine-stage variant (part_005)
calculateInverterPower(targetFlow, ratedFlow) ==
    IF targetFlow <= 0
    THEN FIXED_LOSS_AI
    ELSE LET totalPower == TotalPower(targetFlow, ratedFlow)
             valvePower == getValvePower(VALVE_STAGES, targetFlow)
             maxAllowedPower == Mul(valvePower, ONE - MIN_SAVING_AI)
         IN  Min(totalPower, maxAllowedPower)

\* A plausible slip: the overhead is applied without the 1 % cap.
PIDPowerUncapped(targetFlow, ratedFlow) ==
    IF targetFlow <= 0
    THEN FIXED_LOSS_PID
    ELSE Mul(calculateInverterPower(targetFlow, ratedFlow), PID_OVERHEAD)

\* calculatePIDPower of the nine-stage variant (part_005)
calculatePIDPower(targetFlow, ratedFlow) ==
    IF targetFlow <= 0
    THEN FIXED_LOSS_PID
    ELSE LET aiPower == calculateInverterPower(targetFlow, ratedFlow)
             valvePower == getValvePower(VALVE_STAGES, targetFlow)
             pidPower == Mul(aiPower, PID_OVERHEAD)
             maxAllowedPower == Mul(valvePower, ONE - MIN_SAVING_PID)
         IN  Min(pidPower, maxAllowedPower)

\* calculateInverterPower of the seven-stage variant (lib/energy-calculations.ts)
calculateInverterPower_7(targetFlow, ratedFlow, fixedLoss) ==
    IF targetFlow <= 0
    THEN fixedLoss
    ELSE LET valvePower == getValvePower(VALVE_STAGES_7, targetFlow)
             flowRatio == FlowRatio(targetFlow, ratedFlow)
             ratedValvePower == getValvePower(VALVE_STAGES_7, ratedFlow)
             theoreticalPower == fixedLoss + Mul(ratedValvePower - fixedLoss, Pow3(flowRatio))
             maxAllowedPower == Mul(valvePower, ONE - MIN_SAVING_AI)
         IN  Min(theoreticalPower, maxAllowedPower)

\* calculatePIDPower of the seven-stage variant (lib/energy-calculations.ts)
calculatePIDPower_7(targetFlow, ratedFlow) ==
    IF targetFlow <= 0
    THEN FIXED_LOSS_PID_7
    ELSE LET valvePower == getValvePower(VALVE_STAGES_7, targetFlow)
             aiPower == calculateInverterPower_7(targetFlow, ratedFlow, FIXED_LOSS_AI_7)
             maxAllowedPower == Mul(valvePower, ONE - MIN_SAVING_PID)
             pidPower == Mul(aiPower, BLEND_AI) + Mul(maxAllowedPower, BLEND_CAP)
         IN  Max(pidPower, FIXED_LOSS_PID_7)

\* savingPercent = valvePower > 0 ? (savingPower / valvePower) * 100 : 0
SavingPercent(valvePower, savingPower) ==
    IF valvePower > 0 THEN Div(savingPower, valvePower) * 100 ELSE 0

\* calculateEnergySaving; variant 9 is part_005, variant 7 is
\* lib/energy-calculations.ts.  Both use the default rated flow.
calculateEnergySaving(variant, targetFlow) ==
    LET valvePower == IF variant = 9 THEN getValvePower(VALVE_STAGES, targetFlow)
                                     ELSE getValvePower(VALVE_STAGES_7, targetFlow)
        inverterPower == IF variant = 9
                         THEN calculateInverterPower(targetFlow, PUMP_RATED_FLOW)
                         ELSE calculateInverterPower_7(targetFlow, RATED_FLOW_7, FIXED_LOSS_AI_7)
        pidPower == IF variant = 9
                    THEN calculatePIDPower(targetFlow, PUMP_RATED_FLOW)
                    ELSE calculatePIDPower_7(targetFlow, RATED_FLOW_7)
        savingPower == valvePower - inverterPower
        pidSavingPower == valvePower - pidPower
    IN  [ valvePower |-> valvePower,
          inverterPower |-> inverterPower,
          pidPower |-> pidPower,
          savingPower |-> savingPower,
          savingPercent |-> SavingPercent(valvePower, savingPower),
          pidSavingPercent |-> SavingPercent(valvePower, pidSavingPower) ]

---------------------------------------------------------------------------
(* The power model as a state machine: a caller picks the arguments and    *)
(* invokes one of the exported functions; pwOut holds what it returned.    *)

FlowStep == 1000    \* the flow grid is 0.1 m3/h wide
NegFlowK == 3       \* grid points below zero
MaxFlowK == 300     \* grid points up to 30 m3/h

FlowGrid == { FlowStep * k : k \in (0 - NegFlowK)..MaxFlowK }
RatedFlows == { 0, 10 * ONE, PUMP_RATED_FLOW, RATED_FLOW_7 }
Variants == { 7, 9 }

Stages(variant) == IF variant = 9 THEN VALVE_STAGES ELSE VALVE_STAGES_7
FixedLossAI(variant) == IF variant = 9 THEN FIXED_LOSS_AI ELSE FIXED_LOSS_AI_7
FixedLossPID(variant) == IF variant = 9 THEN FIXED_LOSS_PID ELSE FIXED_LOSS_PID_7

InitPower ==
    /\ pwIn \in [ variant : Variants, targetFlow : FlowGrid, ratedFlow : RatedFlows ]
    /\ pwOut = [ op |-> "none" ]
    /\ SimIdle
    /\ MetricsIdle
    /\ CurvesIdle
    /\ AppIdle

GetValvePower ==
    /\ pwOut' = [ op |-> "getValvePower",
                  power |-> getValvePower(Stages(pwIn.variant), pwIn.targetFlow) ]
    /\ UNCHANGED <<pwIn, simVars, mtVars, cvVars, appVars>>

CalculateInverterPower ==
    /\ pwOut' = [ op |-> "calculateInverterPower",
                  power |-> IF pwIn.variant = 9
                            THEN calculateInverterPower(pwIn.targetFlow, pwIn.ratedFlow)
                            ELSE calculateInverterPower_7(pwIn.targetFlow, pwIn.ratedFlow,
                                                          FIXED_LOSS_AI_7) ]
    /\ UNCHANGED <<pwIn, simVars, mtVars, cvVars, appVars>>

CalculatePIDPower ==
    /\ pwOut' = [ op |-> "calculatePIDPower",
                  power |-> IF pwIn.variant = 9
                            THEN calculatePIDPower(pwIn.targetFlow, pwIn.ratedFlow)
                            ELSE calculatePIDPower_7(pwIn.targetFlow, pwIn.ratedFlow) ]
    /\ UNCHANGED <<pwIn, simVars, mtVars, cvVars, appVars>>

CalculateEnergySaving ==
    /\ pwOut' = [ op |-> "calculateEnergySaving",
                  saving |-> calculateEnergySaving(pwIn.variant, pwIn.targetFlow) ]
    /\ UNCHANGED <<pwIn, simVars, mtVars, cvVars, appVars>>

NextPower ==
    \/ GetValvePower
    \/ CalculateInverterPower
    \/ CalculatePIDPower
    \/ CalculateEnergySaving

SpecPower == InitPower /\ [][NextPower]_vars

---------------------------------------------------------------------------
(* getMotorEfficiency called on its own                                    *)

\* load ratios from -0.2 to 1.2
LoadRatios == { 50 * k : k \in (0 - 40)..240 }

InitEfficiency ==
    /\ pwIn \in [ fn : { "getMotorEfficiency" }, loadRatio : LoadRatios ]
    /\ pwOut = [ op |-> "none" ]
    /\ SimIdle
    /\ MetricsIdle
    /\ CurvesIdle
    /\ AppIdle

GetMotorEfficiency ==
    /\ "loadRatio" \in DOMAIN pwIn
    /\ pwOut' = [ op |-> "getMotorEfficiency",
                  efficiency |-> getMotorEfficiency(pwIn.loadRatio) ]
    /\ UNCHANGED <<pwIn, simVars, mtVars, cvVars, appVars>>

NextEfficiency == GetMotorEfficiency

SpecEfficiency == InitEfficiency /\ [][NextEfficiency]_vars

\* e is the point of the line through (l1, e1) and (l2, e2) at load r, cut
\* to the fixed-point grid
OnLine(r, e, p1, p2) ==
    LET run == p2.load - p1.load
        rise == (r - p1.load) * (p2.efficiency - p1.efficiency)
    IN  (e - p1.efficiency) * run <= rise /\ rise < (e - p1.efficiency + 1) * run

\* C25: getMotorEfficiency returns 0.75 for every loadRatio <= 0, 0.92 for
\* every loadRatio >= 1, the table value at 0.25, 0.5 and 0.75 and the
\* linear interpolation in between; the result lies in [0.75, 0.93] and is
\* 0.93 only at loadRatio = 0.75.
C25_MotorEfficiency ==
    pwOut.op = "getMotorEfficiency" =>
        LET r == pwIn.loadRatio
            e == pwOut.efficiency
        IN  /\ r <= 0 => e = 7500
            /\ r >= ONE => e = 9200
            /\ r = 2500 => e = 8500
            /\ r = 5000 => e = 9000
            /\ r = 7500 => e = 9300
            /\ \A i \in 1..(Len(MOTOR_POINTS) - 1) :
                  (MOTOR_POINTS[i].load < r /\ r < MOTOR_POINTS[i + 1].load) =>
                      OnLine(r, e, MOTOR_POINTS[i], MOTOR_POINTS[i + 1])
            /\ 7500 <= e /\ e <= 9300
            /\ e = 9300 <=> r = 7500

C25_Witness ==
    /\ pwOut.op = "getMotorEfficiency"
    /\ pwIn.loadRatio = 8750
    /\ pwOut.efficiency = 9250


---------------------------------------------------------------------------
(* Claims about the power model (checked under SpecPower)                  *)

\* C1: for every flow >= 0 at the default rated flow, valve power >= PID
\* power >= inverter (AI) power, and both inequalities are strict when the
\* flow is positive; in the seven-stage and in the nine-stage variant.
C1_PowerOrdering ==
    (pwOut.op = "calculateEnergySaving" /\ pwIn.targetFlow >= 0) =>
        LET s == pwOut.saving
        IN  /\ s.valvePower >= s.pidPower
            /\ s.pidPower >= s.inverterPower
            /\ pwIn.targetFlow > 0 =>
                  (s.valvePower > s.pidPower /\ s.pidPower > s.inverterPower)

\* C1 witness: a positive flow of the seven-stage variant at which the
\* inverter power sits on its 98 % cap.
C1_Witness ==
    /\ pwOut.op = "calculateEnergySaving"
    /\ pwIn.variant = 7
    /\ pwIn.targetFlow = RATED_FLOW_7
    /\ pwOut.saving.inverterPower = Mul(pwOut.saving.valvePower, ONE - MIN_SAVING_AI)
    /\ pwOut.saving.pidPower > pwOut.saving.inverterPower

C3_FixedLossAndRated ==
    /\ (pwOut.op = "calculateInverterPower" /\ pwIn.targetFlow <= 0) =>
            pwOut.power = FixedLossAI(pwIn.variant)
    /\ (pwOut.op = "calculatePIDPower" /\ pwIn.targetFlow <= 0) =>
            pwOut.power = FixedLossPID(pwIn.variant)
    /\ (pwOut.op = "calculateInverterPower" /\ pwIn.targetFlow = pwIn.ratedFlow) =>
            pwOut.power <= getValvePower(Stages(pwIn.variant), pwIn.ratedFlow)

\* C3 witness: a negative flow with a zero rated flow returns the fixed loss.
C3_Witness ==
    /\ pwOut.op = "calculateInverterPower"
    /\ pwIn.variant = 9
    /\ pwIn.targetFlow < 0
    /\ pwIn.ratedFlow = 0
    /\ pwOut.power = FIXED_LOSS_AI

\* C4: getValvePower never extrapolates: first stage's power for flow <= 0,
\* last stage's power above the table, the stage's power at a table flow,
\* the linear interpolation (truncated to the fixed-point grid) in between;
\* the result lies between the first and last stage powers and does not
\* decrease when the flow grows.
C4_ValvePowerClamped ==
    pwOut.op = "getValvePower" =>
        LET st == Stages(pwIn.variant)
            n == Len(st)
            f == pwIn.targetFlow
            p == pwOut.power
        IN  /\ f <= 0 => p = st[1].power
            /\ f > st[n].flow => p = st[n].power
            /\ \A i \in 1..n : f = st[i].flow => p = st[i].power
            /\ \A i \in 1..(n - 1) :
                  (st[i].flow < f /\ f < st[i + 1].flow) =>
                     LET df == st[i + 1].flow - st[i].flow
                         dp == st[i + 1].power - st[i].power
                         exact == (f - st[i].flow) * dp
                     IN  /\ (p - st[i].power) * df <= exact
                         /\ exact < (p - st[i].power + 1) * df
            /\ st[1].power <= p /\ p <= st[n].power
            /\ p <= getValvePower(st, f + FlowStep)

\* C4 witness: a flow beyond the last stage gets the last stage's power.
C4_Witness ==
    /\ pwOut.op = "getValvePower"
    /\ pwIn.variant = 9
    /\ pwIn.targetFlow > VALVE_STAGES[Len(VALVE_STAGES)].flow
    /\ pwOut.power = VALVE_STAGES[Len(VALVE_STAGES)].power

---------------------------------------------------------------------------
(* Binary64 arithmetic                                                     *)
(*                                                                         *)
(* A non-negative double below 2^19 that is a multiple of 2^-61 (every     *)
(* double >= 2^-9 is one) is held as the natural number x * 2^61, written  *)
(* as four little-endian limbs of 20 bits.  Sums and products are computed *)
(* exactly and then rounded to 53 significant bits, ties to even, which is *)
(* what IEEE 754 prescribes for + and *.                                   *)

LIMB == 2^20

RECURSIVE BitLen(_)
BitLen(n) == IF n = 0 THEN 0 ELSE 1 + BitLen(n \div 2)

DZero == <<0, 0, 0, 0>>

\* exact sum of two limb vectors
DAddExact(a, b) ==
    LET s1 == a[1] + b[1]
        s2 == a[2] + b[2] + s1 \div LIMB
        s3 == a[3] + b[3] + s2 \div LIMB
        s4 == a[4] + b[4] + s3 \div LIMB
    IN  << s1 % LIMB, s2 % LIMB, s3 % LIMB, s4 >>

\* exact product of a limb vector and a small natural
DMulExact(a, k) ==
    LET p1 == a[1] * k
        p2 == a[2] * k + p1 \div LIMB
        p3 == a[3] * k + p2 \div LIMB
        p4 == a[4] * k + p3 \div LIMB
    IN  << p1 % LIMB, p2 % LIMB, p3 % LIMB, p4 >>

\* exact quotient and remainder of a limb vector by a small natural
DDivExact(a, k) ==
    LET q4 == a[4] \div k
        r4 == a[4] % k
        q3 == (r4 * LIMB + a[3]) \div k
        r3 == (r4 * LIMB + a[3]) % k
        q2 == (r3 * LIMB + a[2]) \div k
        r2 == (r3 * LIMB + a[2]) % k
        q1 == (r2 * LIMB + a[1]) \div k
        r1 == (r2 * LIMB + a[1]) % k
    IN  [ quot |-> <<q1, q2, q3, q4>>, rem |-> r1 ]

DBitLen(a) ==
    IF a[4] # 0 THEN 60 + BitLen(a[4])
    ELSE IF a[3] # 0 THEN 40 + BitLen(a[3])
    ELSE IF a[2] # 0 THEN 20 + BitLen(a[2])
    ELSE BitLen(a[1])

\* Round an exact value to 53 significant bits, ties to even.  sticky tells
\* that the exact value lies strictly above the limb vector (a remainder was
\* cut off below the unit).
DRound53(a, sticky) ==
    LET d == DBitLen(a) - 53
    IN  IF d <= 0
        THEN a
        ELSE LET low == a[1] % (2^d)
                 half == 2^(d - 1)
                 odd == IF d < 20 THEN (a[1] \div 2^d) % 2 = 1 ELSE a[2] % 2 = 1
                 down == << a[1] - low, a[2], a[3], a[4] >>
                 up == \/ low > half
                       \/ low = half /\ (sticky \/ odd)
             IN  IF up
                 THEN DAddExact(down, IF d < 20 THEN <<2^d, 0, 0, 0>> ELSE <<0, 1, 0, 0>>)
                 ELSE down

\* the double a + b
DAdd(a, b) == DRound53(DAddExact(a, b), FALSE)

\* the double a * k for a small natural k
DMul(a, k) == DRound53(DMulExact(a, k), FALSE)

\* a <= b
DLeq(a, b) ==
    \/ a[4] < b[4]
    \/ a[4] = b[4] /\ a[3] < b[3]
    \/ a[4] = b[4] /\ a[3] = b[3] /\ a[2] < b[2]
    \/ a[4] = b[4] /\ a[3] = b[3] /\ a[2] = b[2] /\ a[1] <= b[1]

\* The double nearest to the decimal literal n / 1000 (the value a caller's
\* number has after parsing); n / 1000 is 0 or at least 2^-9.
DFromMillis(n) ==
    LET dv == DDivExact(<<0, 0, 0, 2 * n>>, 1000)
    IN  DRound53(dv.quot, dv.rem # 0)

\* Math.round(x): the integer nearest to x, ties upwards
MathRound(a) == DAddExact(a, <<0, 0, 0, 1>>)[4] \div 2

\* Math.round(t * 100) / 100, as an integer number of hundredths
RoundTime(x) == MathRound(DMul(x, 100))

---------------------------------------------------------------------------
(* Elementary functions in fixed point (Math.exp, Math.log, Math.sqrt,     *)
(* Math.sin, Math.atan2), accurate to a few units of the last digit.       *)

PI == 31416
HALF_PI == 15708
TWO_PI == 62832

\* e^-n for n = 0..9
EXP_NEG_INT == << 10000, 3679, 1353, 498, 183, 67, 25, 9, 3, 1 >>

\* The series of e^-x in Horner form: 1 - x/k * (1 - x/(k+1) * (...))
RECURSIVE ExpSeries(_, _, _)
ExpSeries(x, k, last) ==
    IF k > last THEN ONE ELSE ONE - Mul(x, ExpSeries(x, k + 1, last)) \div k

\* Math.exp(-x) for x >= 0
ExpNeg(x) ==
    LET n == x \div ONE
    IN  IF n >= Len(EXP_NEG_INT) THEN 0
        ELSE Mul(EXP_NEG_INT[n + 1], ExpSeries(x % ONE, 1, 9))

\* floor(sqrt(n)) by bisection on [lo, hi)
RECURSIVE ISqrt(_, _, _)
ISqrt(n, lo, hi) ==
    IF hi - lo <= 1 THEN lo
    ELSE LET mid == (lo + hi) \div 2
         IN  IF mid * mid <= n THEN ISqrt(n, mid, hi) ELSE ISqrt(n, lo, mid)

\* Math.sqrt(x) for 0 <= x < 85
Sqrt(x) == ISqrt(x * 2500, 0, 46341) * 2

\* sine and cosine of an angle in [0, pi/2]
SinQ(x) == LET x2 == Mul(x, x)
           IN  Mul(x, ONE - Mul(x2, ONE - Mul(x2, ONE - Mul(x2, ONE - x2 \div 72) \div 42) \div 20) \div 6)
CosQ(x) == LET x2 == Mul(x, x)
           IN  ONE - Mul(x2, ONE - Mul(x2, ONE - Mul(x2, ONE - x2 \div 56) \div 30) \div 12) \div 2

\* Math.sin(x) for x >= 0
Sin(x) ==
    LET r == x % TWO_PI
    IN  IF r <= HALF_PI THEN SinQ(r)
        ELSE IF r <= PI THEN SinQ(PI - r)
        ELSE IF r <= PI + HALF_PI THEN 0 - SinQ(r - PI)
        ELSE 0 - SinQ(TWO_PI - r)

\* The y in [lo, hi) at which the decreasing function of kind f ("exp" for
\* ExpNeg, "cos" for CosQ) comes down to v.
RECURSIVE Inverse(_, _, _, _)
Inverse(f, v, lo, hi) ==
    IF hi - lo <= 1 THEN lo
    ELSE LET mid == (lo + hi) \div 2
             fm == IF f = "exp" THEN ExpNeg(mid) ELSE CosQ(mid)
         IN  IF fm >= v THEN Inverse(f, v, mid, hi) ELSE Inverse(f, v, lo, mid)

\* Math.abs(Math.log(x)) for 0 < x <= 1
AbsLog(x) == Inverse("exp", x, 0, 10 * ONE)

\* Math.atan2(Math.sqrt(1 - z * z), z) for 0 <= z <= 1, which is acos(z)
ACos(z) == Inverse("cos", z, 0, HALF_PI + 1)

---------------------------------------------------------------------------
(* Transient response engine (lib/simulation.ts with the SIMULATION        *)
(* constants of part_007)                                                  *)

Modes == { "fast", "stable", "smooth" }

\* SIMULATION.TIME_CONSTANT and SIMULATION.OVERSHOOT, by mode
TIME_CONSTANT(mode) ==
    IF mode = "fast" THEN 15000 ELSE IF mode = "stable" THEN 30000 ELSE 50000
OVERSHOOT(mode) ==
    IF mode = "fast" THEN 15 * ONE ELSE IF mode = "stable" THEN 5 * ONE ELSE 0

\* SIMULATION.DYNAMIC_FACTORS and SIMULATION.PHYSICS
TIME_CONSTANT_DELTA == 4000
TIME_CONSTANT_TARGET == 1500
OVERSHOOT_DELTA == 2500
OVERSHOOT_TARGET == 2000
SIM_RATED_FLOW == 205000
MAX_OVERSHOOT == 300000

\* SIMULATION.DEFAULT_DURATION and SIMULATION.STEP_SIZE, in milliseconds
DEFAULT_DURATION == 30000
STEP_SIZE == 100

\* thresholds below which a change counts as none
FLAT_EPS == 1000
NO_DELTA_EPS == 10

calculateDynamicTimeConstant(baseTimeConstant, startFlow, targetFlow) ==
    LET ratedFlow == SIM_RATED_FLOW
        delta == Abs(targetFlow - startFlow)
        targetRatio == Div(Max(startFlow, targetFlow), ratedFlow)
        deltaFactor == ONE + Mul(TIME_CONSTANT_DELTA, Div(delta, ratedFlow))
        targetFactor == ONE + Mul(TIME_CONSTANT_TARGET, targetRatio)
    IN  Mul(Mul(baseTimeConstant, deltaFactor), targetFactor)

\* A dynamic overshoot without the 30 % cap.
DynamicOvershootUncapped(baseOvershoot, startFlow, targetFlow) ==
    IF baseOvershoot <= 0 THEN 0
    ELSE LET ratedFlow == SIM_RATED_FLOW
             delta == Abs(targetFlow - startFlow)
             targetRatio == Div(targetFlow, ratedFlow)
             deltaFactor == ONE + Mul(OVERSHOOT_DELTA, Div(delta, ratedFlow))
             targetFactor == 8000 + Mul(OVERSHOOT_TARGET, targetRatio)
         IN  Mul(Mul(baseOvershoot, deltaFactor), targetFactor)

calculateDynamicOvershoot(baseOvershoot, startFlow, targetFlow) ==
    IF baseOvershoot <= 0 THEN 0
    ELSE LET ratedFlow == SIM_RATED_FLOW
             delta == Abs(targetFlow - startFlow)
             targetRatio == Div(targetFlow, ratedFlow)
             deltaFactor == ONE + Mul(OVERSHOOT_DELTA, Div(delta, ratedFlow))
             targetFactor == 8000 + Mul(OVERSHOOT_TARGET, targetRatio)
         IN  Min(Mul(Mul(baseOvershoot, deltaFactor), targetFactor), MAX_OVERSHOOT)

overshootToDampingRatio(overshootPercent) ==
    IF overshootPercent <= 0 THEN ONE
    ELSE LET os == overshootPercent \div 100
             lnOs == AbsLog(os)
         IN  Div(lnOs, Sqrt(Mul(PI, PI) + Mul(lnOs, lnOs)))

firstOrderResponse(targetValue, startValue, timeConstant, time) ==
    targetValue - Mul(targetValue - startValue, ExpNeg(Div(time, timeConstant)))

\* A second-order response without the early return for no change.
SecondOrderNoShortcut(targetValue, startValue, timeConstant, overshootPercent, time) ==
    IF overshootPercent <= 0 \/ overshootToDampingRatio(overshootPercent) >= ONE
    THEN firstOrderResponse(targetValue, startValue, timeConstant, time)
    ELSE targetValue

secondOrderResponse(targetValue, startValue, timeConstant, overshootPercent, time) ==
    LET delta == targetValue - startValue
    IN  IF Abs(delta) < NO_DELTA_EPS THEN targetValue
        ELSE IF overshootPercent <= 0
        THEN firstOrderResponse(targetValue, startValue, timeConstant, time)
        ELSE LET zeta == overshootToDampingRatio(overshootPercent)
             IN  IF zeta >= ONE
                 THEN firstOrderResponse(targetValue, startValue, timeConstant, time)
                 ELSE LET zetaOmegaN == Div(ONE, timeConstant)
                          omegaN == Div(zetaOmegaN, zeta)
                          root == Sqrt(ONE - Mul(zeta, zeta))
                          omegaD == Mul(omegaN, root)
                          phi == ACos(zeta)
                          envelope == ExpNeg(Mul(zetaOmegaN, time))
                          oscillation == Div(Sin(Mul(omegaD, time) + phi), root)
                      IN  targetValue - Mul(Mul(delta, envelope), oscillation)

---------------------------------------------------------------------------
(* simulateTransient and simulateCaseComparison, one loop iteration per    *)
(* step.  The loop variable t is a double; each response is evaluated at   *)
(* the time t holds, cut to the fixed-point grid.                          *)

\* the most samples a series of the model holds
MaxSamples == 305

\* the value of the double x on the fixed-point grid
TimeOf(x) == DMulExact(DMulExact(x, 100), 100)[4] \div 2

\* Math.round(x * 10) / 10, as an integer number of tenths
Round1(x) == (x + 500) \div 1000

\* |startFlow - targetFlow| < 0.1
IsFlatNever(startFlow, targetFlow) == FALSE

IsFlat(startFlow, targetFlow) == Abs(startFlow - targetFlow) < FLAT_EPS

Sample(time, flow, power) ==
    [ time |-> RoundTime(time), flow |-> Round2(flow), power |-> Round2(power) ]

\* A plausible slip: the magnitude of the flow instead of max(0, flow).
InverterPowerAtMagnitude(flow) == calculateInverterPower(Abs(flow), PUMP_RATED_FLOW)

InverterPowerAt(flow) == calculateInverterPower(Max(0, flow), PUMP_RATED_FLOW)

ValvePowerAt(flow) == getValvePower(VALVE_STAGES, Max(0, flow))

\* the PID case draws 10 % more than the inverter power
PID_POWER_FACTOR == 11000

\* base parameters of the three cases of the comparison
TAU_A == 8 * ONE
TAU_B == 3 * ONE
\* a Case C as slow as Case B
TAU_C_AS_B == TAU_B
TAU_C == 15000
OS_B == 8 * ONE
OS_C == 3 * ONE
HALF == 5000
OS_TARGET_BASE == 8000

\* the flow pairs and timings the caller passes (flows in fixed point,
\* durations and step sizes in milliseconds)
FlowPairs ==
    { <<100000, 100000>>, <<100000, 100549>>, <<50000, 200000>>,
      <<200000, 50000>>, <<30000, 0>>, <<0, 205000>> }

Timings ==
    { << <<>>, <<>> >>, << <<5000>>, <<>> >>, << <<300>>, <<100>> >>,
      << <<1000>>, <<250>> >>, << <<0>>, <<100>> >>, << <<100>>, <<4>> >>,
      << <<1000>>, <<0>> >> }

Durations == { <<>>, <<5000>>, <<300>> }

InitSim ==
    /\ PowerIdle
    /\ MetricsIdle
    /\ CurvesIdle
    /\ AppIdle
    /\ \/ \E f \in FlowPairs, m \in Modes, tm \in Timings :
             simIn = [ fn |-> "simulateTransient", startFlow |-> f[1],
                       targetFlow |-> f[2], mode |-> m,
                       duration |-> tm[1], stepSize |-> tm[2] ]
       \/ \E f \in FlowPairs, d \in Durations :
             simIn = [ fn |-> "simulateCaseComparison", startFlow |-> f[1],
                       targetFlow |-> f[2], duration |-> d ]
    /\ simPc = "call"
    /\ simLoc = [ fn |-> "none" ]
    /\ t = DZero
    /\ timeSeries = <<>>
    /\ caseA = <<>>
    /\ caseB = <<>>
    /\ caseC = <<>>
    /\ simOut = [ op |-> "none" ]

\* simulateTransient up to the test that chooses the loop
SimulateTransient ==
    /\ simPc = "call"
    /\ simIn.fn = "simulateTransient"
    /\ LET duration == DFromMillis(OrElse(simIn.duration, DEFAULT_DURATION))
           stepSize == DFromMillis(OrElse(simIn.stepSize, STEP_SIZE))
           baseTimeConstant == TIME_CONSTANT(simIn.mode)
           baseOvershoot == OVERSHOOT(simIn.mode)
       IN  simLoc' = [ fn |-> "simulateTransient",
                       duration |-> duration,
                       stepSize |-> stepSize,
                       timeConstant |-> calculateDynamicTimeConstant(
                           baseTimeConstant, simIn.startFlow, simIn.targetFlow),
                       overshoot |-> calculateDynamicOvershoot(
                           baseOvershoot, simIn.startFlow, simIn.targetFlow) ]
    /\ t' = DZero
    /\ timeSeries' = <<>>
    /\ simPc' = IF IsFlat(simIn.startFlow, simIn.targetFlow) THEN "flat" ELSE "loop"
    /\ UNCHANGED <<simIn, caseA, caseB, caseC, simOut, pwVars, mtVars, cvVars, appVars>>

\* one iteration of the flat-line loop
TransientFlatStep ==
    /\ simPc = "flat"
    /\ DLeq(t, simLoc.duration)
    /\ Len(timeSeries) < MaxSamples
    /\ timeSeries' = Append(timeSeries,
           Sample(t, simIn.targetFlow, InverterPowerAt(simIn.targetFlow)))
    /\ t' = DAdd(t, simLoc.stepSize)
    /\ UNCHANGED <<simIn, simPc, simLoc, caseA, caseB, caseC, simOut, pwVars, mtVars, cvVars, appVars>>

TransientFlatReturn ==
    /\ simPc = "flat"
    /\ ~DLeq(t, simLoc.duration)
    /\ simOut' = [ op |-> "simulateTransient", mode |-> simIn.mode,
                   timeConstant |-> simLoc.timeConstant, overshoot |-> 0 ]
    /\ simPc' = "done"
    /\ UNCHANGED <<simIn, simLoc, t, timeSeries, caseA, caseB, caseC, pwVars, mtVars, cvVars, appVars>>

\* one iteration of the response loop
TransientLoopStep ==
    /\ simPc = "loop"
    /\ DLeq(t, simLoc.duration)
    /\ Len(timeSeries) < MaxSamples
    /\ LET flow == secondOrderResponse(simIn.targetFlow, simIn.startFlow,
                       simLoc.timeConstant, simLoc.overshoot, TimeOf(t))
       IN  timeSeries' = Append(timeSeries, Sample(t, flow, InverterPowerAt(flow)))
    /\ t' = DAdd(t, simLoc.stepSize)
    /\ UNCHANGED <<simIn, simPc, simLoc, caseA, caseB, caseC, simOut, pwVars, mtVars, cvVars, appVars>>

TransientLoopReturn ==
    /\ simPc = "loop"
    /\ ~DLeq(t, simLoc.duration)
    /\ simOut' = [ op |-> "simulateTransient", mode |-> simIn.mode,
                   timeConstant |-> Round2(simLoc.timeConstant),
                   overshoot |-> Round1(simLoc.overshoot) ]
    /\ simPc' = "done"
    /\ UNCHANGED <<simIn, simLoc, t, timeSeries, caseA, caseB, caseC, pwVars, mtVars, cvVars, appVars>>

\* simulateCaseComparison up to the test that chooses the loop
SimulateCaseComparison ==
    /\ simPc = "call"
    /\ simIn.fn = "simulateCaseComparison"
    /\ LET ratedFlow == SIM_RATED_FLOW
           delta == Abs(simIn.targetFlow - simIn.startFlow)
           deltaRatio == Div(delta, ratedFlow)
           targetRatio == Div(Max(simIn.startFlow, simIn.targetFlow), ratedFlow)
           tcFactor == Mul(ONE + Mul(TIME_CONSTANT_DELTA, deltaRatio),
                           ONE + Mul(TIME_CONSTANT_TARGET, targetRatio))
       IN  /\ simLoc' = [ fn |-> "simulateCaseComparison",
                          duration |-> DFromMillis(OrElse(simIn.duration, DEFAULT_DURATION)),
                          stepSize |-> DFromMillis(STEP_SIZE),
                          tauA |-> Mul(TAU_A, ONE + Mul(HALF, deltaRatio)),
                          osA |-> 0,
                          tauB |-> Mul(TAU_B, tcFactor),
                          osB |-> Mul(Mul(OS_B, ONE + Mul(OVERSHOOT_DELTA, deltaRatio)),
                                      OS_TARGET_BASE + Mul(OVERSHOOT_TARGET, targetRatio)),
                          tauC |-> Mul(TAU_C, tcFactor),
                          osC |-> Mul(Mul(OS_C, ONE + Mul(Mul(OVERSHOOT_DELTA, HALF), deltaRatio)),
                                      OS_TARGET_BASE
                                          + Mul(Mul(OVERSHOOT_TARGET, HALF), targetRatio)) ]
           /\ simPc' = IF delta < FLAT_EPS THEN "flatCases" ELSE "loopCases"
    /\ t' = DZero
    /\ caseA' = <<>>
    /\ caseB' = <<>>
    /\ caseC' = <<>>
    /\ UNCHANGED <<simIn, timeSeries, simOut, pwVars, mtVars, cvVars, appVars>>

\* one iteration of the flat-line loop of the comparison
CasesFlatStep ==
    /\ simPc = "flatCases"
    /\ DLeq(t, simLoc.duration)
    /\ Len(caseA) < MaxSamples
    /\ LET flow == simIn.targetFlow
       IN  /\ caseA' = Append(caseA, Sample(t, flow, ValvePowerAt(flow)))
           /\ caseB' = Append(caseB,
                  Sample(t, flow, Mul(InverterPowerAt(flow), PID_POWER_FACTOR)))
           /\ caseC' = Append(caseC, Sample(t, flow, InverterPowerAt(flow)))
    /\ t' = DAdd(t, simLoc.stepSize)
    /\ UNCHANGED <<simIn, simPc, simLoc, timeSeries, simOut, pwVars, mtVars, cvVars, appVars>>

\* one iteration of the response loop of the comparison
CasesLoopStep ==
    /\ simPc = "loopCases"
    /\ DLeq(t, simLoc.duration)
    /\ Len(caseA) < MaxSamples
    /\ LET flowA == firstOrderResponse(simIn.targetFlow, simIn.startFlow,
                        simLoc.tauA, TimeOf(t))
           flowB == secondOrderResponse(simIn.targetFlow, simIn.startFlow,
                        simLoc.tauB, simLoc.osB, TimeOf(t))
           flowC == secondOrderResponse(simIn.targetFlow, simIn.startFlow,
                        simLoc.tauC, simLoc.osC, TimeOf(t))
       IN  /\ caseA' = Append(caseA, Sample(t, flowA, ValvePowerAt(flowA)))
           /\ caseB' = Append(caseB,
                  Sample(t, flowB, Mul(InverterPowerAt(flowB), PID_POWER_FACTOR)))
           /\ caseC' = Append(caseC, Sample(t, flowC, InverterPowerAt(flowC)))
    /\ t' = DAdd(t, simLoc.stepSize)
    /\ UNCHANGED <<simIn, simPc, simLoc, timeSeries, simOut, pwVars, mtVars, cvVars, appVars>>

CasesReturn ==
    /\ simPc \in { "flatCases", "loopCases" }
    /\ ~DLeq(t, simLoc.duration)
    /\ simOut' = [ op |-> "simulateCaseComparison" ]
    /\ simPc' = "done"
    /\ UNCHANGED <<simIn, simLoc, t, timeSeries, caseA, caseB, caseC, pwVars, mtVars, cvVars, appVars>>

NextSim ==
    \/ SimulateTransient
    \/ TransientFlatStep
    \/ TransientFlatReturn
    \/ TransientLoopStep
    \/ TransientLoopReturn
    \/ SimulateCaseComparison
    \/ CasesFlatStep
    \/ CasesLoopStep
    \/ CasesReturn

SpecSim == InitSim /\ [][NextSim]_vars

\* the most calculateInverterPower returns: 98 % of the last valve stage
MAX_AI_POWER == Mul(VALVE_STAGES[Len(VALVE_STAGES)].power, ONE - MIN_SAVING_AI)

\* a step of simulateTransient that pushes a sample
PushesSample == Len(timeSeries') = Len(timeSeries) + 1

\* the unrounded flow of the sample being pushed
PushedFlow ==
    IF simPc = "flat" THEN simIn.targetFlow
    ELSE secondOrderResponse(simIn.targetFlow, simIn.startFlow,
                             simLoc.timeConstant, simLoc.overshoot, TimeOf(t))

PushedSample == timeSeries'[Len(timeSeries')]

\* C24 as stated: every sample pairs its flow with calculateInverterPower(
\* max(0, flow)) of the unrounded flow, rounded to 2 decimals; every sample
\* whose flow is <= 0 carries the AI fixed-loss power; no sample's power is
\* below the rounded AI fixed loss or above 98 % of the last valve stage's
\* power.
C24_SamplePowerAsStated ==
    [][ PushesSample =>
          /\ PushedSample.flow = Round2(PushedFlow)
          /\ PushedSample.power =
                Round2(calculateInverterPower(Max(0, PushedFlow), PUMP_RATED_FLOW))
          /\ PushedSample.flow <= 0 => PushedSample.power = Round2(FIXED_LOSS_AI)
          /\ PushedSample.power >= Round2(FIXED_LOSS_AI)
          /\ PushedSample.power * 100 <= MAX_AI_POWER ]_vars

\* C24: every sample pairs its flow with calculateInverterPower(max(0, flow))
\* of the unrounded flow, rounded to 2 decimals; every sample whose
\* unrounded flow is <= 0 carries the rounded AI fixed-loss power; no
\* sample's power is below the rounded AI fixed loss or above 98 % of the
\* last valve stage's power rounded to 2 decimals.
C24_SamplePower ==
    [][ PushesSample =>
          /\ PushedSample.flow = Round2(PushedFlow)
          /\ PushedSample.power =
                Round2(calculateInverterPower(Max(0, PushedFlow), PUMP_RATED_FLOW))
          /\ PushedFlow <= 0 => PushedSample.power = Round2(FIXED_LOSS_AI)
          /\ PushedSample.power >= Round2(FIXED_LOSS_AI)
          /\ PushedSample.power <= Round2(MAX_AI_POWER) ]_vars

\* a series with a sample of negative flow at the fixed loss, a sample that
\* shows flow 0.00 for a positive flow, and a sample above the fixed loss
C24_Witness ==
    /\ simOut.op = "simulateTransient"
    /\ \E i \in 1..Len(timeSeries) :
          timeSeries[i].flow < 0 /\ timeSeries[i].power = Round2(FIXED_LOSS_AI)
    /\ \E i \in 1..Len(timeSeries) :
          timeSeries[i].flow = 0 /\ timeSeries[i].power > Round2(FIXED_LOSS_AI)
    /\ \E i \in 1..Len(timeSeries) :
          timeSeries[i].flow > 0 /\ timeSeries[i].power > Round2(FIXED_LOSS_AI)

---------------------------------------------------------------------------
(* The dynamic parameters over a wide range of flows: direct calls of      *)
(* calculateDynamicOvershoot, and comparisons with a duration of 0 s (one  *)
(* sample) on a grid of flows.                                             *)

DynFlowStep == 5000     \* the grid of the comparison is 0.5 m3/h wide
DynMaxFlowK == 60       \* and reaches 30 m3/h

DynFlows == { DynFlowStep * k : k \in 0..DynMaxFlowK }

\* base overshoots (percent) and flows of the direct calls, negative and
\* far beyond the rated flow included
BaseOvershoots == { -50000, 0, 1, 50000, 150000, 300000, 1000000 }
WideFlows == { -1000000, -300000, 0, 50000, 205000, 300000, 1000000 }

InitDynamics ==
    /\ PowerIdle
    /\ MetricsIdle
    /\ CurvesIdle
    /\ AppIdle
    /\ \/ \E b \in BaseOvershoots, s \in WideFlows, g \in WideFlows :
             simIn = [ fn |-> "calculateDynamicOvershoot", baseOvershoot |-> b,
                       startFlow |-> s, targetFlow |-> g ]
       \/ \E s \in DynFlows, g \in DynFlows :
             simIn = [ fn |-> "simulateCaseComparison", startFlow |-> s,
                       targetFlow |-> g, duration |-> <<0>> ]
    /\ simPc = "call"
    /\ simLoc = [ fn |-> "none" ]
    /\ t = DZero
    /\ timeSeries = <<>>
    /\ caseA = <<>>
    /\ caseB = <<>>
    /\ caseC = <<>>
    /\ simOut = [ op |-> "none" ]

CalculateDynamicOvershoot ==
    /\ simPc = "call"
    /\ simIn.fn = "calculateDynamicOvershoot"
    /\ simOut' = [ op |-> "calculateDynamicOvershoot",
                   value |-> calculateDynamicOvershoot(simIn.baseOvershoot,
                                 simIn.startFlow, simIn.targetFlow) ]
    /\ simPc' = "done"
    /\ UNCHANGED <<simIn, simLoc, t, timeSeries, caseA, caseB, caseC, pwVars, mtVars, cvVars, appVars>>

NextDynamics ==
    \/ CalculateDynamicOvershoot
    \/ SimulateCaseComparison
    \/ CasesFlatStep
    \/ CasesLoopStep
    \/ CasesReturn

SpecDynamics == InitDynamics /\ [][NextDynamics]_vars

\* C18: calculateDynamicOvershoot never returns more than 30, whatever the
\* flows and the base overshoot; it returns exactly 0 whenever the base
\* overshoot is <= 0; and for flows >= 0 the result is >= 0.
C18_OvershootCap ==
    simOut.op = "calculateDynamicOvershoot" =>
        /\ simOut.value <= 30 * ONE
        /\ simIn.baseOvershoot <= 0 => simOut.value = 0
        /\ (simIn.startFlow >= 0 /\ simIn.targetFlow >= 0) => simOut.value >= 0

\* C18 witness: a base of 30 % on a step from 0 to 30 m3/h, which scales to
\* more than 30 % and is cut to the cap.
C18_Witness ==
    /\ simOut.op = "calculateDynamicOvershoot"
    /\ simIn.baseOvershoot = 30 * ONE
    /\ simIn.startFlow = 0
    /\ simIn.targetFlow = 30 * ONE
    /\ simOut.value = 30 * ONE

\* C19: in simulateCaseComparison, for start and target flows in [0, 30],
\* tauC < tauB < tauA and osA = 0 < osC < osB.
C19_CaseOrdering ==
    (simLoc.fn = "simulateCaseComparison"
        /\ simIn.startFlow >= 0 /\ simIn.startFlow <= 30 * ONE
        /\ simIn.targetFlow >= 0 /\ simIn.targetFlow <= 30 * ONE) =>
        /\ simLoc.tauC < simLoc.tauB
        /\ simLoc.tauB < simLoc.tauA
        /\ simLoc.osA = 0
        /\ 0 < simLoc.osC
        /\ simLoc.osC < simLoc.osB

\* C19 witness: the largest fall of the range, 30 to 0 m3/h, after the
\* comparison has returned.
C19_Witness ==
    /\ simOut.op = "simulateCaseComparison"
    /\ simIn.startFlow = 30 * ONE
    /\ simIn.targetFlow = 0
    /\ simLoc.tauC < simLoc.tauB
    /\ simLoc.tauB < simLoc.tauA
    /\ simLoc.osC < simLoc.osB
    /\ Len(caseA) = 1

\* C27: in the output of simulateCaseComparison with startFlow = targetFlow
\* in [0, 30], every sample index i has
\* caseA[i].power >= caseB[i].power >= caseC[i].power.
C27_PowerOrdering ==
    (/\ simIn.fn = "simulateCaseComparison"
     /\ simIn.startFlow = simIn.targetFlow
     /\ 0 <= simIn.targetFlow /\ simIn.targetFlow <= 30 * ONE) =>
        \A i \in 1..Len(caseA) :
            /\ caseA[i].power >= caseB[i].power
            /\ caseB[i].power >= caseC[i].power

---------------------------------------------------------------------------
(* secondOrderResponse called on its own                                   *)

ResponseTargets == { 100000, 100005, 150000 }
ResponseStarts == { 50000, 100000, 100009, 200000 }
ResponseTaus == { 15000, 30000 }
ResponseOvershoots == { 0 - 5 * ONE, 0, 5 * ONE, 15 * ONE }
ResponseTimes == { 0, 5000, 10000, 30000, 100000 }

InitResponse ==
    /\ PowerIdle
    /\ MetricsIdle
    /\ CurvesIdle
    /\ AppIdle
    /\ \E g \in ResponseTargets, s \in ResponseStarts, tau \in ResponseTaus,
          os \in ResponseOvershoots, tm \in ResponseTimes :
          simIn = [ fn |-> "secondOrderResponse", targetValue |-> g,
                    startValue |-> s, timeConstant |-> tau,
                    overshootPercent |-> os, time |-> tm ]
    /\ simPc = "call"
    /\ simLoc = [ fn |-> "none" ]
    /\ t = DZero
    /\ timeSeries = <<>>
    /\ caseA = <<>>
    /\ caseB = <<>>
    /\ caseC = <<>>
    /\ simOut = [ op |-> "none" ]

SecondOrderResponse ==
    /\ simPc = "call"
    /\ simIn.fn = "secondOrderResponse"
    /\ simOut' = [ op |-> "secondOrderResponse",
                   value |-> secondOrderResponse(simIn.targetValue, simIn.startValue,
                                 simIn.timeConstant, simIn.overshootPercent, simIn.time) ]
    /\ simPc' = "done"
    /\ UNCHANGED <<simIn, simLoc, t, timeSeries, caseA, caseB, caseC, pwVars, mtVars, cvVars, appVars>>

NextResponse == SecondOrderResponse

SpecResponse == InitResponse /\ [][NextResponse]_vars

ResponseDone == simOut.op = "secondOrderResponse"

\* the call has no overshoot to produce
Degrades ==
    \/ simIn.overshootPercent <= 0
    \/ overshootToDampingRatio(simIn.overshootPercent) >= ONE

FirstOrderOfCall ==
    firstOrderResponse(simIn.targetValue, simIn.startValue, simIn.timeConstant, simIn.time)

NoChange == Abs(simIn.targetValue - simIn.startValue) < NO_DELTA_EPS

\* C23 as stated: with overshootPercent <= 0 or a damping ratio >= 1 the
\* result equals firstOrderResponse(target, start, timeConstant, time), and
\* with |target - start| < 0.001 the result is target at every time.
C23_DegradesAsStated ==
    ResponseDone =>
        /\ Degrades => simOut.value = FirstOrderOfCall
        /\ NoChange => simOut.value = simIn.targetValue

\* C23: with |target - start| < 0.001 the result is target at every time;
\* otherwise, with overshootPercent <= 0 or a damping ratio >= 1, the result
\* equals firstOrderResponse(target, start, timeConstant, time).
C23_Degrades ==
    ResponseDone =>
        /\ (Degrades /\ ~NoChange) => simOut.value = FirstOrderOfCall
        /\ NoChange => simOut.value = simIn.targetValue

C23_Witness ==
    /\ ResponseDone
    /\ Degrades
    /\ ~NoChange
    /\ simIn.time > 0
    /\ simOut.value # simIn.targetValue
    /\ simOut.value # simIn.startValue

---------------------------------------------------------------------------
(* Claims about the sampling loops                                         *)

\* the duration and step size of the call under analysis, in milliseconds
DurationMs == OrElse(simIn.duration, DEFAULT_DURATION)
StepSizeMs ==
    IF simIn.fn = "simulateTransient" THEN OrElse(simIn.stepSize, STEP_SIZE)
    ELSE STEP_SIZE

StrictlyIncreasing(series) ==
    \A i \in 1..(Len(series) - 1) : series[i].time < series[i + 1].time

\* C5: when duration >= 0 is a whole multiple of stepSize > 0, the series
\* simulateTransient returns has exactly duration/stepSize + 1 samples, the
\* first at time 0 and the last at time = duration (301 samples for the
\* defaults 30 s / 0.1 s); the three series of simulateCaseComparison have
\* that same length and identical times.
C5_SampleCount ==
    (simPc = "done" /\ StepSizeMs > 0 /\ DurationMs % StepSizeMs = 0) =>
        LET n == DurationMs \div StepSizeMs + 1
        IN  IF simIn.fn = "simulateTransient"
            THEN /\ Len(timeSeries) = n
                 /\ timeSeries[1].time = 0
                 /\ timeSeries[Len(timeSeries)].time * 10 = DurationMs
            ELSE /\ Len(caseA) = n
                 /\ Len(caseB) = n
                 /\ Len(caseC) = n
                 /\ caseA[1].time = 0
                 /\ caseA[Len(caseA)].time * 10 = DurationMs
                 /\ \A i \in 1..Len(caseA) :
                        caseB[i].time = caseA[i].time /\ caseC[i].time = caseA[i].time

\* C6: in every returned series (for every stepSize > 0 the caller passes)
\* the times of consecutive samples are strictly increasing, although each
\* time is rounded to 2 decimals before it is emitted.
C6_StrictlyIncreasingTimes ==
    (simPc = "done" /\ StepSizeMs > 0) =>
        /\ StrictlyIncreasing(timeSeries)
        /\ StrictlyIncreasing(caseA)
        /\ StrictlyIncreasing(caseB)
        /\ StrictlyIncreasing(caseC)

\* C7: if |startFlow - targetFlow| < 0.1 then, for every mode and duration,
\* every sample of the series simulateTransient builds has the flow
\* targetFlow rounded to 2 decimals, and the overshoot it reports is 0
\* whatever the base overshoot of the mode.
C7_FlatLine ==
    (simIn.fn = "simulateTransient"
        /\ Abs(simIn.startFlow - simIn.targetFlow) < FLAT_EPS) =>
        /\ \A i \in 1..Len(timeSeries) : timeSeries[i].flow = Round2(simIn.targetFlow)
        /\ simPc = "done" => simOut.overshoot = 0

C7_Witness ==
    /\ simPc = "done"
    /\ simIn.fn = "simulateTransient"
    /\ simIn.mode = "fast"
    /\ simIn.startFlow # simIn.targetFlow
    /\ Abs(simIn.startFlow - simIn.targetFlow) < FLAT_EPS
    /\ Len(timeSeries) > 50
    /\ simOut.overshoot = 0

\* C8: simulateTransient is total: for every finite duration and stepSize
\* the caller passes, the sampling loop terminates and a series is returned.
\* The loop runs while t <= duration and each iteration adds stepSize to t,
\* so it terminates exactly when every iteration leaves t larger than it
\* found it.
C8_Terminates ==
    [][(simIn.fn = "simulateTransient" /\ simPc \in { "flat", "loop" } /\ simPc' = simPc)
           => ~DLeq(t', t)]_vars

---------------------------------------------------------------------------
(* Control response metrics (part_000).  A series is a sequence of         *)
(* [time, value] with time in hundredths of a second and value in fixed    *)
(* point.                                                                  *)

\* |delta| below this counts as no change
METRIC_EPS == 100
\* |target| above this gives a band relative to the target
BAND_TARGET_MIN == 1000
\* the default tolerance of the settling band, 2 %
TOLERANCE == 200
TENTH == 1000
NINE_TENTHS == 9000

\* whether value has reached threshold, in the direction of the change
Reached(value, threshold, isRising) ==
    IF isRising THEN value >= threshold ELSE value <= threshold

\* a search that looks at the last sample only
FindAtEnd(series, threshold, isRising, i) ==
    IF Len(series) = 0 THEN <<>>
    ELSE IF Reached(series[Len(series)].value, threshold, isRising)
         THEN <<series[Len(series)].time>>
         ELSE <<>>

\* timeSeries.find(p => reached)?.time, searching from index i
RECURSIVE Find(_, _, _, _)
Find(series, threshold, isRising, i) ==
    IF i > Len(series) THEN <<>>
    ELSE IF Reached(series[i].value, threshold, isRising)
         THEN <<series[i].time>>
         ELSE Find(series, threshold, isRising, i + 1)

calculateTransitionTime(series, startValue, targetValue) ==
    IF Len(series) = 0 THEN 0
    ELSE LET delta == targetValue - startValue
         IN  IF Abs(delta) < METRIC_EPS THEN 0
             ELSE LET isRising == delta > 0
                      threshold10 == startValue + Mul(delta, TENTH)
                      threshold90 == startValue + Mul(delta, NINE_TENTHS)
                      t10 == OrElse(Find(series, threshold10, isRising, 1), 0)
                      t90 == OrElse(Find(series, threshold90, isRising, 1), 0)
                  IN  t90 - t10

\* Math.max(...values) and Math.min(...values) of a non-empty series
MaxValue(series) ==
    CHOOSE m \in { series[i].value : i \in 1..Len(series) } :
        \A i \in 1..Len(series) : series[i].value <= m

MinValue(series) ==
    CHOOSE m \in { series[i].value : i \in 1..Len(series) } :
        \A i \in 1..Len(series) : series[i].value >= m

\* an overshoot that ignores the direction of the change
OvershootUndirected(series, startValue, targetValue) ==
    IF Len(series) = 0 THEN 0
    ELSE LET delta == targetValue - startValue
         IN  IF Abs(delta) < METRIC_EPS THEN 0
             ELSE IF Abs(targetValue) < METRIC_EPS THEN 0
             ELSE IF MaxValue(series) <= targetValue THEN 0
                  ELSE Div(MaxValue(series) - targetValue, Abs(delta)) * 100

calculateOvershoot(series, startValue, targetValue) ==
    IF Len(series) = 0 THEN 0
    ELSE LET delta == targetValue - startValue
         IN  IF Abs(delta) < METRIC_EPS THEN 0
             ELSE IF Abs(targetValue) < METRIC_EPS THEN 0
             ELSE IF delta > 0
             THEN IF MaxValue(series) <= targetValue THEN 0
                  ELSE Div(MaxValue(series) - targetValue, Abs(delta)) * 100
             ELSE IF MinValue(series) >= targetValue THEN 0
                  ELSE Div(targetValue - MinValue(series), Abs(delta)) * 100

\* a backwards scan that returns the time of the out-of-band sample itself
RECURSIVE SettlingScanOffByOne(_, _, _, _)
SettlingScanOffByOne(series, lowerBound, upperBound, i) ==
    IF i < 1 THEN series[1].time
    ELSE IF series[i].value < lowerBound \/ series[i].value > upperBound
         THEN series[i].time
         ELSE SettlingScanOffByOne(series, lowerBound, upperBound, i - 1)

\* the backwards scan of calculateSettlingTime, from index i
RECURSIVE SettlingScan(_, _, _, _)
SettlingScan(series, lowerBound, upperBound, i) ==
    IF i < 1 THEN series[1].time
    ELSE IF series[i].value < lowerBound \/ series[i].value > upperBound
         THEN IF i + 1 <= Len(series) THEN series[i + 1].time ELSE series[i].time
         ELSE SettlingScan(series, lowerBound, upperBound, i - 1)

SettlingTimeNoDeltaGuard(series, startValue, targetValue) ==
    IF Len(series) = 0 THEN 0
    ELSE LET band == Mul(Abs(targetValue), TOLERANCE)
         IN  SettlingScan(series, targetValue - band, targetValue + band, Len(series))

calculateSettlingTime(series, startValue, targetValue) ==
    IF Len(series) = 0 THEN 0
    ELSE LET delta == targetValue - startValue
         IN  IF Abs(delta) < METRIC_EPS THEN 0
             ELSE LET band == IF Abs(targetValue) > BAND_TARGET_MIN
                              THEN Mul(Abs(targetValue), TOLERANCE)
                              ELSE Mul(Abs(delta), TOLERANCE)
                  IN  SettlingScan(series, targetValue - band, targetValue + band,
                                   Len(series))

\* startValue ?? (timeSeries[0]?.value ?? 0)
StartOf(series, startValue) ==
    OrElse(startValue, IF Len(series) > 0 THEN series[1].value ELSE 0)

calculateControlMetrics(series, targetValue, startValue) ==
    LET start == StartOf(series, startValue)
    IN  [ transitionTime |-> calculateTransitionTime(series, start, targetValue),
          overshoot |-> calculateOvershoot(series, start, targetValue),
          settlingTime |-> calculateSettlingTime(series, start, targetValue) ]

\* a linear ramp of n + 1 samples, dt apart, from value from in steps of dv
Ramp(n, dt, from, dv) ==
    [ i \in 1..(n + 1) |-> [ time |-> (i - 1) * dt, value |-> from + (i - 1) * dv ] ]

\* a series sampled once a second with the given values
EverySecond(values) ==
    [ i \in 1..Len(values) |-> [ time |-> (i - 1) * 100, value |-> values[i] ] ]

\* the ramp 0 -> 20 over 10 s sampled every 0.1 s
RisingRamp == Ramp(100, 10, 0, 2000)

MetricSeries ==
    { <<>>,
      RisingRamp,
      Ramp(10, 100, 200000, 0 - 20000),
      EverySecond(<<0, 100000, 220000, 190000, 202000, 200000>>),
      EverySecond(<<0, 50000, 100000>>),
      EverySecond(<<50000, 50000, 50000>>),
      EverySecond(<<200000, 100000, 30000, 55000, 50000>>) }

MetricTargets == { 0, 50000, 50050, 200000 }

MetricStarts == { <<>>, <<0>>, <<50000>>, <<200000>> }

InitMetrics ==
    /\ PowerIdle
    /\ SimIdle
    /\ CurvesIdle
    /\ AppIdle
    /\ mtIn \in [ timeSeries : MetricSeries, targetValue : MetricTargets,
                  startValue : MetricStarts ]
    /\ mtOut = [ op |-> "none" ]

CalculateTransitionTime ==
    /\ mtIn.startValue # <<>>
    /\ mtOut' = [ op |-> "calculateTransitionTime",
                  value |-> calculateTransitionTime(mtIn.timeSeries,
                                mtIn.startValue[1], mtIn.targetValue) ]
    /\ UNCHANGED <<mtIn, pwVars, simVars, cvVars, appVars>>

CalculateOvershoot ==
    /\ mtIn.startValue # <<>>
    /\ mtOut' = [ op |-> "calculateOvershoot",
                  value |-> calculateOvershoot(mtIn.timeSeries,
                                mtIn.startValue[1], mtIn.targetValue) ]
    /\ UNCHANGED <<mtIn, pwVars, simVars, cvVars, appVars>>

CalculateSettlingTime ==
    /\ mtIn.startValue # <<>>
    /\ mtOut' = [ op |-> "calculateSettlingTime",
                  value |-> calculateSettlingTime(mtIn.timeSeries,
                                mtIn.startValue[1], mtIn.targetValue) ]
    /\ UNCHANGED <<mtIn, pwVars, simVars, cvVars, appVars>>

CalculateControlMetrics ==
    /\ mtOut' = [ op |-> "calculateControlMetrics",
                  metrics |-> calculateControlMetrics(mtIn.timeSeries,
                                  mtIn.targetValue, mtIn.startValue) ]
    /\ UNCHANGED <<mtIn, pwVars, simVars, cvVars, appVars>>

NextMetrics ==
    \/ CalculateTransitionTime
    \/ CalculateOvershoot
    \/ CalculateSettlingTime
    \/ CalculateControlMetrics

SpecMetrics == InitMetrics /\ [][NextMetrics]_vars

\* C9: calculateControlMetrics returns {transitionTime: 0, overshoot: 0,
\* settlingTime: 0} for any series whenever |target - start| < 0.01, and
\* whenever the series is empty, with or without an explicit start.
C9_NoChangeMetrics ==
    (mtOut.op = "calculateControlMetrics"
        /\ \/ Len(mtIn.timeSeries) = 0
           \/ Abs(mtIn.targetValue - StartOf(mtIn.timeSeries, mtIn.startValue))
                  < METRIC_EPS) =>
        mtOut.metrics = [ transitionTime |-> 0, overshoot |-> 0, settlingTime |-> 0 ]

C9_Witness ==
    /\ mtOut.op = "calculateControlMetrics"
    /\ mtIn.timeSeries = RisingRamp
    /\ mtIn.startValue = <<50000>>
    /\ mtIn.targetValue = 50050
    /\ mtOut.metrics = [ transitionTime |-> 0, overshoot |-> 0, settlingTime |-> 0 ]

\* the time of the first sample of the series that has reached threshold,
\* 0 when none has
FirstReachTime(series, threshold, isRising) ==
    LET hits == { i \in 1..Len(series) : Reached(series[i].value, threshold, isRising) }
    IN  IF hits = {} THEN 0
        ELSE series[CHOOSE i \in hits : \A j \in hits : i <= j].time

\* C10: calculateTransitionTime returns t90 - t10, t10 being the time of the
\* first sample that has reached start + 0.1 * delta and t90 that of the
\* first sample that has reached start + 0.9 * delta (>= when rising, <=
\* when falling), a threshold no sample reaches counting as time 0; for the
\* ramp 0 -> 20 over 10 s sampled every 0.1 s it is 8.0 s within one step.
C10_TransitionTime ==
    mtOut.op = "calculateTransitionTime" =>
        LET series == mtIn.timeSeries
            start == mtIn.startValue[1]
            delta == mtIn.targetValue - start
        IN  /\ (Len(series) > 0 /\ Abs(delta) >= METRIC_EPS) =>
                   mtOut.value =
                       FirstReachTime(series, start + Mul(delta, NINE_TENTHS), delta > 0)
                       - FirstReachTime(series, start + Mul(delta, TENTH), delta > 0)
            /\ (series = RisingRamp /\ start = 0 /\ mtIn.targetValue = 200000) =>
                   Abs(mtOut.value - 800) <= 10

C10_Witness ==
    /\ mtOut.op = "calculateTransitionTime"
    /\ mtIn.timeSeries = RisingRamp
    /\ mtIn.startValue = <<0>>
    /\ mtIn.targetValue = 200000
    /\ mtOut.value = 800

\* C11: for every series with non-negative, increasing times and every
\* start/target pair, the three values calculateControlMetrics returns
\* (transitionTime, overshoot, settlingTime) are all >= 0.
C11_NonNegativeMetrics ==
    mtOut.op = "calculateControlMetrics" =>
        /\ mtOut.metrics.transitionTime >= 0
        /\ mtOut.metrics.overshoot >= 0
        /\ mtOut.metrics.settlingTime >= 0

\* whether m is the largest (smallest) value of the series
IsMaxOf(series, m) ==
    /\ \E i \in 1..Len(series) : series[i].value = m
    /\ \A i \in 1..Len(series) : series[i].value <= m

IsMinOf(series, m) ==
    /\ \E i \in 1..Len(series) : series[i].value = m
    /\ \A i \in 1..Len(series) : series[i].value >= m

\* C12: calculateOvershoot is direction-aware: rising, it is 0 if
\* max(series) <= target and (max - target) / |delta| * 100 otherwise;
\* falling, it is 0 if min(series) >= target and (target - min) / |delta|
\* * 100 otherwise; it is 0 whenever |target| < 0.01 or |delta| < 0.01.  A
\* series peaking at 22 with start 0 and target 20 gives exactly 10.
C12_DirectionalOvershoot ==
    (mtOut.op = "calculateOvershoot" /\ Len(mtIn.timeSeries) > 0) =>
        LET series == mtIn.timeSeries
            target == mtIn.targetValue
            delta == target - mtIn.startValue[1]
        IN  IF Abs(target) < METRIC_EPS \/ Abs(delta) < METRIC_EPS
            THEN mtOut.value = 0
            ELSE IF delta > 0
            THEN \E m \in { series[i].value : i \in 1..Len(series) } :
                     /\ IsMaxOf(series, m)
                     /\ mtOut.value = IF m <= target THEN 0
                                      ELSE Div(m - target, Abs(delta)) * 100
            ELSE \E m \in { series[i].value : i \in 1..Len(series) } :
                     /\ IsMinOf(series, m)
                     /\ mtOut.value = IF m >= target THEN 0
                                      ELSE Div(target - m, Abs(delta)) * 100

C12_Witness ==
    /\ mtOut.op = "calculateOvershoot"
    /\ IsMaxOf(mtIn.timeSeries, 22 * ONE)
    /\ mtIn.startValue = <<0>>
    /\ mtIn.targetValue = 20 * ONE
    /\ mtOut.value = 10 * ONE

\* the band of calculateSettlingTime around the target
SettlingBand(startValue, targetValue) ==
    IF Abs(targetValue) > BAND_TARGET_MIN
    THEN Mul(Abs(targetValue), TOLERANCE)
    ELSE Mul(Abs(targetValue - startValue), TOLERANCE)

InBand(value, startValue, targetValue) ==
    /\ value >= targetValue - SettlingBand(startValue, targetValue)
    /\ value <= targetValue + SettlingBand(startValue, targetValue)

\* whether sample k is the first of the final in-band run of the series
SettlesAt(series, k, startValue, targetValue) ==
    /\ \A j \in k..Len(series) : InBand(series[j].value, startValue, targetValue)
    /\ k = 1 \/ ~InBand(series[k - 1].value, startValue, targetValue)

\* C13 as stated: calculateSettlingTime returns the earliest sample time T
\* such that the sample at T and every later sample lies inside
\* [target - band, target + band]: the time of the sample right after the
\* last out-of-band sample, the first sample's time when all are in band.
C13_SettlingTimeAsStated ==
    (mtOut.op = "calculateSettlingTime" /\ Len(mtIn.timeSeries) > 0
        /\ Abs(mtIn.targetValue - mtIn.startValue[1]) >= METRIC_EPS) =>
        \E k \in 1..Len(mtIn.timeSeries) :
            /\ SettlesAt(mtIn.timeSeries, k, mtIn.startValue[1], mtIn.targetValue)
            /\ mtOut.value = mtIn.timeSeries[k].time

\* C13 (amended): for a non-empty series and |delta| >= 0.01, when the last
\* sample lies inside the band calculateSettlingTime returns the time of
\* the first sample of the final in-band run; when the last sample lies
\* outside the band it returns the last sample's time.
C13_SettlingTime ==
    (mtOut.op = "calculateSettlingTime" /\ Len(mtIn.timeSeries) > 0
        /\ Abs(mtIn.targetValue - mtIn.startValue[1]) >= METRIC_EPS) =>
        LET series == mtIn.timeSeries
            last == series[Len(series)]
        IN  IF InBand(last.value, mtIn.startValue[1], mtIn.targetValue)
            THEN \E k \in 1..Len(series) :
                     /\ SettlesAt(series, k, mtIn.startValue[1], mtIn.targetValue)
                     /\ mtOut.value = series[k].time
            ELSE mtOut.value = last.time

C13_Witness ==
    /\ mtOut.op = "calculateSettlingTime"
    /\ mtIn.timeSeries = EverySecond(<<0, 100000, 220000, 190000, 202000, 200000>>)
    /\ mtIn.startValue = <<0>>
    /\ mtIn.targetValue = 20 * ONE
    /\ mtOut.value = 400


---------------------------------------------------------------------------
(* Curve fitting (lib/pump-calculations.ts).  The points are small         *)
(* integers and the arithmetic is exact: a number is the fraction n / d    *)
(* in lowest terms with d > 0, so a fit that is exact in real arithmetic   *)
(* is exact here, and a singular system has a pivot that is exactly 0.     *)

RECURSIVE GCD(_, _)
GCD(a, b) == IF b = 0 THEN a ELSE GCD(b, a % b)

\* the fraction n / d (d # 0) in lowest terms
Frac(n, d) ==
    LET g == GCD(Abs(n), Abs(d))
    IN  IF d > 0 THEN [ n |-> n \div g, d |-> d \div g ]
        ELSE [ n |-> (0 - n) \div g, d |-> (0 - d) \div g ]

RInt(k) == [ n |-> k, d |-> 1 ]

RAdd(x, y) ==
    LET g == GCD(x.d, y.d)
    IN  Frac(x.n * (y.d \div g) + y.n * (x.d \div g), (x.d \div g) * y.d)

RNeg(x) == [ n |-> 0 - x.n, d |-> x.d ]

RSub(x, y) == RAdd(x, RNeg(y))

RMul(x, y) ==
    LET g1 == GCD(Abs(x.n), y.d)
        g2 == GCD(Abs(y.n), x.d)
    IN  IF x.n = 0 \/ y.n = 0 THEN RInt(0)
        ELSE [ n |-> (x.n \div g1) * (y.n \div g2), d |-> (x.d \div g2) * (y.d \div g1) ]

\* x / y for y # 0
RDiv(x, y) ==
    RMul(x, IF y.n > 0 THEN [ n |-> y.d, d |-> y.n ] ELSE [ n |-> 0 - y.d, d |-> 0 - y.n ])

RAbs(x) == [ n |-> Abs(x.n), d |-> x.d ]

\* x > y
RGreater(x, y) == x.n * y.d > y.n * x.d

\* 1 / PIVOT_EPS_INV_ROOT^2 is the pivot threshold 1e-10
PIVOT_EPS_INV_ROOT == 10^5

\* Math.abs(x) < 1e-10
BelowPivotEps(x) ==
    /\ Abs(x.n) < PIVOT_EPS_INV_ROOT
    /\ Abs(x.n) * PIVOT_EPS_INV_ROOT
           < (x.d + PIVOT_EPS_INV_ROOT - 1) \div PIVOT_EPS_INV_ROOT

\* the sum of f over the points, in order
RECURSIVE SumOver(_, _, _)
SumOver(points, f(_), i) ==
    IF i > Len(points) THEN RInt(0)
    ELSE RAdd(f(points[i]), SumOver(points, f, i + 1))

\* the row with the largest |A[k][i]| among rows i..3, the first on ties
MaxRow(A, i) ==
    LET m2 == IF i + 1 <= 3 /\ RGreater(RAbs(A[i + 1][i]), RAbs(A[i][i]))
              THEN i + 1 ELSE i
    IN  IF i + 2 <= 3 /\ RGreater(RAbs(A[i + 2][i]), RAbs(A[m2][i]))
        THEN i + 2 ELSE m2

\* [A[i], A[maxRow]] = [A[maxRow], A[i]]
SwapRows(A, i, m) ==
    [ k \in 1..3 |-> IF k = i THEN A[m] ELSE IF k = m THEN A[i] ELSE A[k] ]

\* rows below i reduced by row i, columns i..4
EliminateBelow(A, i) ==
    [ k \in 1..3 |->
        IF k <= i THEN A[k]
        ELSE LET factor == RDiv(A[k][i], A[i][i])
             IN  [ j \in 1..4 |->
                     IF j < i THEN A[k][j]
                     ELSE RSub(A[k][j], RMul(factor, A[i][j])) ] ]

\* forward elimination from column i: the reduced matrix, or <<>> when a
\* pivot is below the threshold
RECURSIVE ForwardEliminate(_, _)
ForwardEliminate(A, i) ==
    IF i > 3 THEN A
    ELSE LET B == SwapRows(A, i, MaxRow(A, i))
         IN  IF BelowPivotEps(B[i][i]) THEN <<>>
             ELSE ForwardEliminate(EliminateBelow(B, i), i + 1)

\* a back substitution that returns the unknowns in reverse order
BackSubstituteReversed(A) ==
    LET x3 == RDiv(A[3][4], A[3][3])
        x2 == RDiv(RSub(A[2][4], RMul(A[2][3], x3)), A[2][2])
        x1 == RDiv(RSub(RSub(A[1][4], RMul(A[1][2], x2)), RMul(A[1][3], x3)), A[1][1])
    IN  <<x3, x2, x1>>

\* back substitution on the reduced matrix
BackSubstitute(A) ==
    LET x3 == RDiv(A[3][4], A[3][3])
        x2 == RDiv(RSub(A[2][4], RMul(A[2][3], x3)), A[2][2])
        x1 == RDiv(RSub(RSub(A[1][4], RMul(A[1][2], x2)), RMul(A[1][3], x3)), A[1][1])
    IN  <<x1, x2, x3>>

FlowOf(p) == RInt(p.flow)
HeadOf(p) == RInt(p.head)
Square(x) == RMul(x, x)

\* a * flow^2 + b * flow + c
CurveAt(a, b, c, flow) ==
    RAdd(RAdd(RMul(RMul(a, flow), flow), RMul(b, flow)), c)

\* 1 - ssRes / ssTot, or 0 when ssTot is not positive
RSquared(ssTot, ssRes) ==
    IF ssTot.n > 0 THEN RSub(RInt(1), RDiv(ssRes, ssTot)) ELSE RInt(0)

\* the least-squares fit by the normal equations (from the sums on)
FitNormalEquations(points) ==
    LET n == Len(points)
        X1(p) == FlowOf(p)
        X2(p) == RMul(FlowOf(p), FlowOf(p))
        X3(p) == RMul(X2(p), FlowOf(p))
        X4(p) == RMul(X3(p), FlowOf(p))
        Y0(p) == HeadOf(p)
        Y1(p) == RMul(FlowOf(p), HeadOf(p))
        Y2(p) == RMul(X2(p), HeadOf(p))
        s0 == RInt(n)
        s1 == SumOver(points, X1, 1)
        s2 == SumOver(points, X2, 1)
        s3 == SumOver(points, X3, 1)
        s4 == SumOver(points, X4, 1)
        t0 == SumOver(points, Y0, 1)
        t1 == SumOver(points, Y1, 1)
        t2 == SumOver(points, Y2, 1)
        A == << <<s4, s3, s2, t2>>, <<s3, s2, s1, t1>>, <<s2, s1, s0, t0>> >>
        R == ForwardEliminate(A, 1)
        meanY == RDiv(t0, RInt(n))
    IN  IF R = <<>>
        THEN [ a |-> RInt(0), b |-> RInt(0), c |-> meanY, r2 |-> RInt(0) ]
        ELSE LET x == BackSubstitute(R)
                 Tot(p) == Square(RSub(HeadOf(p), meanY))
                 Res(p) == Square(RSub(HeadOf(p), CurveAt(x[1], x[2], x[3], FlowOf(p))))
             IN  [ a |-> x[1], b |-> x[2], c |-> x[3],
                   r2 |-> RSquared(SumOver(points, Tot, 1), SumOver(points, Res, 1)) ]

\* a fit that solves the normal equations however few points there are
FitWithoutShortGuard(points) == FitNormalEquations(points)

fitQuadraticCurve(points) ==
    IF Len(points) < 3
    THEN [ a |-> RInt(0), b |-> RInt(0),
           c |-> IF Len(points) = 0 THEN RInt(0) ELSE HeadOf(points[1]),
           r2 |-> RInt(0) ]
    ELSE FitNormalEquations(points)

\* Math.round(x * scale) / scale
RRound(x, scale) == Frac((2 * x.n * scale + x.d) \div (2 * x.d), scale)

\* steps = 50, the default of generateQHCurve
DEFAULT_STEPS == 50

\* Math.max(...operatingPoints.map(p => p.flow))
MaxFlowOf(points) ==
    CHOOSE m \in { points[i].flow : i \in 1..Len(points) } :
        \A i \in 1..Len(points) : points[i].flow <= m

\* Math.max(x, 0)
RMax0(x) == IF x.n > 0 THEN x ELSE RInt(0)

\* With fewer than 3 points the argument itself is returned (integer flows
\* and heads); otherwise steps + 1 points of the fitted curve, rounded to
\* hundredths.
generateQHCurve(operatingPoints, steps) ==
    IF Len(operatingPoints) < 3 THEN operatingPoints
    ELSE LET fit == fitQuadraticCurve(operatingPoints)
             maxFlow == RInt(MaxFlowOf(operatingPoints))
         IN  [ k \in 1..(steps + 1) |->
                 LET flow == RMul(RDiv(maxFlow, RInt(steps)), RInt(k - 1))
                     head == CurveAt(fit.a, fit.b, fit.c, flow)
                 IN  [ flow |-> RRound(flow, 100),
                       head |-> RRound(RMax0(head), 100) ] ]

\* dataPoints.filter(p => p.flow > 0)
ValidPoints(dataPoints) == SelectSeq(dataPoints, LAMBDA p : p.flow > 0)

\* the resistance coefficient of the fallback models, 0.1
DEFAULT_RESISTANCE == Frac(1, 10)

\* The formula field of the result is a rendering of staticHead and
\* resistanceCoeff as text and is left out.
estimateSystemCurve(dataPoints) ==
    IF Len(dataPoints) < 3
    THEN [ staticHead |-> RInt(0), resistanceCoeff |-> DEFAULT_RESISTANCE,
           r2 |-> RInt(0) ]
    ELSE LET validPoints == ValidPoints(dataPoints)
         IN  IF Len(validPoints) < 2
             THEN [ staticHead |-> HeadOf(dataPoints[1]),
                    resistanceCoeff |-> DEFAULT_RESISTANCE, r2 |-> RInt(0) ]
             ELSE LET n == RInt(Len(validPoints))
                      X(p) == RMul(FlowOf(p), FlowOf(p))
                      Y(p) == HeadOf(p)
                      XY(p) == RMul(X(p), Y(p))
                      XX(p) == RMul(X(p), X(p))
                      sumX == SumOver(validPoints, X, 1)
                      sumY == SumOver(validPoints, Y, 1)
                      sumXY == SumOver(validPoints, XY, 1)
                      sumX2 == SumOver(validPoints, XX, 1)
                      denominator == RSub(RMul(n, sumX2), RMul(sumX, sumX))
                  IN  IF BelowPivotEps(denominator)
                      THEN [ staticHead |-> RDiv(sumY, n), resistanceCoeff |-> RInt(0),
                             r2 |-> RInt(0) ]
                      ELSE LET k == RDiv(RSub(RMul(n, sumXY), RMul(sumX, sumY)),
                                         denominator)
                               staticHead == RDiv(RSub(sumY, RMul(k, sumX)), n)
                               meanY == RDiv(sumY, n)
                               Tot(p) == Square(RSub(HeadOf(p), meanY))
                               Res(p) == Square(RSub(HeadOf(p),
                                             RAdd(staticHead, RMul(k, X(p)))))
                               r2 == RSquared(SumOver(validPoints, Tot, 1),
                                              SumOver(validPoints, Res, 1))
                           IN  [ staticHead |-> RRound(staticHead, 100),
                                 resistanceCoeff |-> RRound(k, 10000),
                                 r2 |-> RRound(r2, 1000) ]

\* the points a caller passes: every list of up to three points over a small
\* grid, and some longer lists
MaxFlowQ == 3
MaxShortLen == 3
PointGrid == [ flow : 0..MaxFlowQ, head : { 0, 2, 5 } ]

Pt(f, h) == [ flow |-> f, head |-> h ]

LongPointLists ==
    { << Pt(0, 5), Pt(1, 4), Pt(2, 1), Pt(3, 0) >>,
      << Pt(1, 5), Pt(1, 2), Pt(2, 0), Pt(2, 5) >>,
      << Pt(2, 1), Pt(2, 2), Pt(2, 3), Pt(2, 6) >>,
      << Pt(0, 1), Pt(0, 2), Pt(0, 6), Pt(0, 3), Pt(2, 3) >>,
      << Pt(3, 1), Pt(1, 4), Pt(0, 5), Pt(2, 3), Pt(1, 5) >> }

PointLists ==
    UNION { [ 1..len -> PointGrid ] : len \in 0..MaxShortLen } \cup LongPointLists

InitCurves ==
    /\ PowerIdle
    /\ SimIdle
    /\ MetricsIdle
    /\ cvIn \in PointLists
    /\ cvOut = [ op |-> "none" ]
    /\ AppIdle

\* A fit that reverses its argument in place before it returns.
FitQuadraticCurveInPlace ==
    /\ cvOut' = [ op |-> "fitQuadraticCurve", fit |-> fitQuadraticCurve(cvIn) ]
    /\ cvIn' = [ i \in 1..Len(cvIn) |-> cvIn[Len(cvIn) + 1 - i] ]
    /\ UNCHANGED <<pwVars, simVars, mtVars, appVars>>

FitQuadraticCurve ==
    /\ cvOut' = [ op |-> "fitQuadraticCurve", fit |-> fitQuadraticCurve(cvIn) ]
    /\ UNCHANGED <<cvIn, pwVars, simVars, mtVars, appVars>>

EstimateSystemCurve ==
    /\ cvOut' = [ op |-> "estimateSystemCurve", curve |-> estimateSystemCurve(cvIn) ]
    /\ UNCHANGED <<cvIn, pwVars, simVars, mtVars, appVars>>

\* the steps argument: omitted or given
StepChoices == { <<>>, <<2>> }

GenerateQHCurve ==
    \E steps \in StepChoices :
        /\ cvOut' = [ op |-> "generateQHCurve", steps |-> steps,
                      curve |-> generateQHCurve(cvIn, OrElse(steps, DEFAULT_STEPS)) ]
        /\ UNCHANGED <<cvIn, pwVars, simVars, mtVars, appVars>>

NextCurves ==
    \/ FitQuadraticCurve
    \/ GenerateQHCurve
    \/ EstimateSystemCurve

SpecCurves == InitCurves /\ [][NextCurves]_vars

\* the flows of a list of points, and the mean of its heads
FlowsOf(points) == { points[i].flow : i \in 1..Len(points) }
HeadsOf(points) == { points[i].head : i \in 1..Len(points) }
IsMeanHead(x, points) == RMul(x, RInt(Len(points))) = SumOver(points, HeadOf, 1)

PassesThrough(fit, points) ==
    \A i \in 1..Len(points) :
        CurveAt(fit.a, fit.b, fit.c, FlowOf(points[i])) = HeadOf(points[i])

C16_FlatFallback ==
    (cvOut.op = "estimateSystemCurve" /\ Len(cvIn) > 0
        /\ Len(ValidPoints(cvIn)) < 2) =>
        /\ IsMeanHead(cvOut.curve.staticHead, cvIn)
        /\ cvOut.curve.resistanceCoeff = Frac(1, 10)
        /\ cvOut.curve.r2 = RInt(0)

\* C26: estimateSystemCurve depends only on the points with flow > 0: with
\* at least 2 such points it fits head against flow^2 on exactly those, and
\* adding or removing points with flow = 0 never changes staticHead,
\* resistanceCoeff or r2 (the result for a list is the result for the list
\* without its zero-flow points).
C26_ZeroFlowIgnored ==
    cvOut.op = "estimateSystemCurve" =>
        cvOut.curve = estimateSystemCurve(ValidPoints(cvIn))

---------------------------------------------------------------------------
(* findOperatingPoint: the crossing of a pump curve and a system curve.    *)
(* null is <<>>, a result is << [flow, head] >>; a division of zero by     *)
(* zero is NaN, which the arithmetic and the rounding that follow keep.    *)

NaN == [ n |-> 0, d |-> 0 ]

Finite(x) == x.d # 0

\* systemCurve.findIndex(s => s.flow >= flow), counted from 1; 0 for -1
FindIndex(systemCurve, flow) ==
    LET at == { j \in 1..Len(systemCurve) : systemCurve[j].flow >= flow }
    IN  IF at = {} THEN 0 ELSE CHOOSE j \in at : \A k \in at : j <= k

\* diff1 and diff2 of iteration i (the segment from point i - 1 to point i)
HeadDiffs(pumpCurve, systemCurve, i) ==
    LET sysIdx == FindIndex(systemCurve, pumpCurve[i - 1].flow)
        sysH1 == systemCurve[Max(1, sysIdx - 1)].head
        sysH2 == systemCurve[sysIdx].head
    IN  << pumpCurve[i - 1].head - sysH1, pumpCurve[i].head - sysH2 >>

\* the point returned for the segment that ends at point i
Crossing(pumpCurve, systemCurve, i) ==
    LET diff == HeadDiffs(pumpCurve, systemCurve, i)
        sum == Abs(diff[1]) + Abs(diff[2])
        p1 == pumpCurve[i - 1]
        p2 == pumpCurve[i]
    IN  IF sum = 0 THEN [ flow |-> NaN, head |-> NaN ]
        ELSE LET tt == Frac(Abs(diff[1]), sum)
                 flow == RAdd(FlowOf(p1), RMul(tt, RInt(p2.flow - p1.flow)))
                 head == RAdd(HeadOf(p1), RMul(tt, RInt(p2.head - p1.head)))
             IN  [ flow |-> RRound(flow, 100), head |-> RRound(head, 100) ]

findOperatingPoint(pumpCurve, systemCurve) ==
    IF Len(pumpCurve) < 2 \/ Len(systemCurve) < 2 THEN <<>>
    ELSE LET hits == { i \in 2..Len(pumpCurve) :
                         /\ FindIndex(systemCurve, pumpCurve[i - 1].flow) # 0
                         /\ LET diff == HeadDiffs(pumpCurve, systemCurve, i)
                            IN  diff[1] * diff[2] <= 0 }
         IN  IF hits = {} THEN <<>>
             ELSE << Crossing(pumpCurve, systemCurve,
                              CHOOSE i \in hits : \A k \in hits : i <= k) >>

\* the curves a caller passes: flows rising from 0 in equal steps, as the
\* curve generators produce them, with up to three points
MaxCurveLen == 3
CurveSteps == { 1, 2 }
CurveHeads == { 0, 2, 5 }

Curves ==
    UNION { { [ k \in 1..len |-> Pt(step * (k - 1), heads[k]) ] :
                heads \in [ 1..len -> CurveHeads ], step \in CurveSteps } :
            len \in 1..MaxCurveLen }

InitOperating ==
    /\ PowerIdle
    /\ SimIdle
    /\ MetricsIdle
    /\ cvIn \in [ pumpCurve : Curves, systemCurve : Curves ]
    /\ cvOut = [ op |-> "none" ]
    /\ AppIdle

FindOperatingPoint ==
    /\ "pumpCurve" \in DOMAIN cvIn
    /\ cvOut' = [ op |-> "findOperatingPoint",
                  point |-> findOperatingPoint(cvIn.pumpCurve, cvIn.systemCurve) ]
    /\ UNCHANGED <<cvIn, pwVars, simVars, mtVars, appVars>>

NextOperating == FindOperatingPoint

SpecOperating == InitOperating /\ [][NextOperating]_vars

\* x lies between the integers a and b, in either order
Between(x, a, b) ==
    /\ ~RGreater(RInt(Min(a, b)), x)
    /\ ~RGreater(x, RInt(Max(a, b)))

\* every head of curve p is above every head of curve q
AllAbove(p, q) ==
    \A i \in 1..Len(p), j \in 1..Len(q) : p[i].head > q[j].head

\* C28: findOperatingPoint returns null when either curve has fewer than 2
\* points or the head difference never changes sign; every non-null result
\* has a finite flow between the flows of two adjacent pump-curve points and
\* a finite head between their heads, also when the two curves coincide at
\* consecutive points.
C28_OperatingPoint ==
    cvOut.op = "findOperatingPoint" =>
        LET pump == cvIn.pumpCurve
            sys == cvIn.systemCurve
        IN  /\ (Len(pump) < 2 \/ Len(sys) < 2) => cvOut.point = <<>>
            /\ (AllAbove(pump, sys) \/ AllAbove(sys, pump)) => cvOut.point = <<>>
            /\ cvOut.point # <<>> =>
                  /\ Finite(cvOut.point[1].flow)
                  /\ Finite(cvOut.point[1].head)
                  /\ \E i \in 2..Len(pump) :
                        /\ Between(cvOut.point[1].flow, pump[i - 1].flow, pump[i].flow)
                        /\ Between(cvOut.point[1].head, pump[i - 1].head, pump[i].head)

---------------------------------------------------------------------------
(* Return on investment (calculateROI).  Money and energy are exact        *)
(* rationals; a null result is <<>> and a number x is <<x>>.               *)

\* ELECTRICITY.RATE_KRW_PER_KWH
RATE_KRW_PER_KWH == 95

MONTHS_PER_YEAR == 12
FIVE_YEARS == 5
TEN_YEARS == 10

\* A payback computed whatever the sign of the yearly saving.
ROIWithoutGuard(params, saving) ==
    LET rate == OrElse(params.electricityRate, RATE_KRW_PER_KWH)
        dailySavingKWh == RMul(Frac(saving.savingPower, ONE), RInt(params.dailyRunHours))
        yearlySavingKWh == RMul(dailySavingKWh, RInt(params.yearlyDays))
        yearlySavingKRW == RMul(yearlySavingKWh, RInt(rate))
        roiYears == RDiv(RInt(params.inverterCost), yearlySavingKRW)
    IN  [ valvePower |-> saving.valvePower,
          inverterPower |-> saving.inverterPower,
          dailySavingKWh |-> dailySavingKWh,
          yearlySavingKWh |-> yearlySavingKWh,
          yearlySavingKRW |-> yearlySavingKRW,
          roiYears |-> <<roiYears>>,
          roiMonths |-> <<RMul(roiYears, RInt(MONTHS_PER_YEAR))>>,
          fiveYearSaving |-> RSub(RMul(yearlySavingKRW, RInt(FIVE_YEARS)),
                                  RInt(params.inverterCost)),
          tenYearSaving |-> RSub(RMul(yearlySavingKRW, RInt(TEN_YEARS)),
                                 RInt(params.inverterCost)) ]

\* calculateROI from the energy saving on: saving is what
\* calculateEnergySaving(params.targetFlow) returned
ROIOfSaving(params, saving) ==
    LET rate == OrElse(params.electricityRate, RATE_KRW_PER_KWH)
        dailySavingKWh == RMul(Frac(saving.savingPower, ONE), RInt(params.dailyRunHours))
        yearlySavingKWh == RMul(dailySavingKWh, RInt(params.yearlyDays))
        yearlySavingKRW == RMul(yearlySavingKWh, RInt(rate))
        payback == RGreater(yearlySavingKRW, RInt(0))
        roiYears == RDiv(RInt(params.inverterCost), yearlySavingKRW)
    IN  [ valvePower |-> saving.valvePower,
          inverterPower |-> saving.inverterPower,
          dailySavingKWh |-> dailySavingKWh,
          yearlySavingKWh |-> yearlySavingKWh,
          yearlySavingKRW |-> yearlySavingKRW,
          roiYears |-> IF payback THEN <<roiYears>> ELSE <<>>,
          roiMonths |-> IF payback THEN <<RMul(roiYears, RInt(MONTHS_PER_YEAR))>> ELSE <<>>,
          fiveYearSaving |-> RSub(RMul(yearlySavingKRW, RInt(FIVE_YEARS)),
                                  RInt(params.inverterCost)),
          tenYearSaving |-> RSub(RMul(yearlySavingKRW, RInt(TEN_YEARS)),
                                 RInt(params.inverterCost)) ]

\* the energy saving is computed once and the rest follows from its value
calculateROI(variant, params) ==
    CHOOSE roi \in { ROIOfSaving(params, saving) :
                       saving \in { calculateEnergySaving(variant, params.targetFlow) } } : TRUE

\* the arguments of calculateROI in the model: costs in won, hours a day
\* (a negative entry stands for a caller's mistake), days a year, and the
\* electricity rate in won/kWh (omitted, zero, or given)
InverterCosts == { 0, 2000000, 3000000 }
DailyRunHours == { -8, 0, 8, 24 }
YearlyDays == { 250, 365 }
ElectricityRates == { <<>>, <<0>>, <<120>> }

\* every tenth flow of the grid (1 m3/h apart)
ROIFlows == { f \in FlowGrid : f % (10 * FlowStep) = 0 }

ROIParams ==
    [ targetFlow : ROIFlows, inverterCost : InverterCosts,
      dailyRunHours : DailyRunHours, yearlyDays : YearlyDays,
      electricityRate : ElectricityRates ]

InitROI ==
    /\ pwIn \in [ variant : Variants, params : ROIParams ]
    /\ pwOut = [ op |-> "none" ]
    /\ SimIdle
    /\ MetricsIdle
    /\ CurvesIdle
    /\ AppIdle

CalculateROI ==
    /\ "params" \in DOMAIN pwIn
    /\ pwOut' = [ op |-> "calculateROI", roi |-> calculateROI(pwIn.variant, pwIn.params) ]
    /\ UNCHANGED <<pwIn, simVars, mtVars, cvVars, appVars>>

NextROI == CalculateROI

SpecROI == InitROI /\ [][NextROI]_vars

\* C17: calculateROI returns roiYears = null and roiMonths = null exactly
\* when the yearly saving (yearlySavingKWh * rate) is <= 0; otherwise
\* roiYears = inverterCost / (yearlySavingKWh * rate) and
\* roiMonths = 12 * roiYears; for a non-negative cost the payback is a
\* finite number and is not negative.
C17_ROI ==
    pwOut.op = "calculateROI" =>
        LET r == pwOut.roi
            rate == IF pwIn.params.electricityRate = <<>> THEN RATE_KRW_PER_KWH
                    ELSE pwIn.params.electricityRate[1]
            yearlySaving == RMul(r.yearlySavingKWh, RInt(rate))
        IN  /\ (r.roiYears = <<>>) <=> (yearlySaving.n <= 0)
            /\ (r.roiMonths = <<>>) <=> (yearlySaving.n <= 0)
            /\ yearlySaving.n > 0 =>
                  /\ RMul(r.roiYears[1], yearlySaving) = RInt(pwIn.params.inverterCost)
                  /\ r.roiMonths[1] = RMul(RInt(12), r.roiYears[1])
                  /\ r.roiYears[1].d > 0
                  /\ r.roiMonths[1].d > 0
                  /\ pwIn.params.inverterCost >= 0 =>
                        (r.roiYears[1].n >= 0 /\ r.roiMonths[1].n >= 0)

\* C17 witness: a pump that never runs saves nothing, so a positive cost is
\* never paid back.
C17_Witness ==
    /\ pwOut.op = "calculateROI"
    /\ pwIn.params.targetFlow = 10 * ONE
    /\ pwIn.params.dailyRunHours = 0
    /\ pwIn.params.inverterCost > 0
    /\ pwOut.roi.yearlySavingKRW = RInt(0)
    /\ pwOut.roi.roiYears = <<>>
    /\ pwOut.roi.roiMonths = <<>>

---------------------------------------------------------------------------
(* POST /api/calculate/roi.  A field of the request body is <<>> when it   *)
(* is missing and <<v>> when it is present; route.body is the parsed body  *)
(* and route.res the response.                                             *)

MAX_INVERTER_COST == 100000000
MIN_RUN_HOURS == 1
MAX_RUN_HOURS == 24

\* !x of an optional number: missing, or present and 0
Falsy(field) == field = <<>> \/ field[1] = 0

\* the result object of the response, rounded as the route rounds it
RoundedROI(r) ==
    [ valvePower |-> Round2(r.valvePower),
      inverterPower |-> Round2(r.inverterPower),
      dailySavingKWh |-> RRound(r.dailySavingKWh, 100),
      yearlySavingKWh |-> RRound(r.yearlySavingKWh, 1),
      yearlySavingKRW |-> RRound(r.yearlySavingKRW, 1),
      roiYears |-> IF r.roiYears # <<>> THEN <<RRound(r.roiYears[1], 100)>> ELSE <<>>,
      roiMonths |-> IF r.roiMonths # <<>> THEN <<RRound(r.roiMonths[1], 10)>> ELSE <<>>,
      fiveYearSaving |-> RRound(r.fiveYearSaving, 1),
      tenYearSaving |-> RRound(r.tenYearSaving, 1) ]

InvalidInput == [ status |-> 400, success |-> FALSE, code |-> "INVALID_INPUT" ]

\* the handler for a body that parsed as JSON
PostROI(body) ==
    IF \/ Falsy(body.inverterCost) \/ Falsy(body.dailyRunHours)
       \/ Falsy(body.yearlyDays) \/ body.targetFlow = <<>>
    THEN InvalidInput
    ELSE IF body.inverterCost[1] < 0 \/ body.inverterCost[1] > MAX_INVERTER_COST
    THEN InvalidInput
    ELSE IF body.dailyRunHours[1] < MIN_RUN_HOURS \/ body.dailyRunHours[1] > MAX_RUN_HOURS
    THEN InvalidInput
    ELSE [ status |-> 200, success |-> TRUE,
           rate |-> OrElse(body.electricityRate, RATE_KRW_PER_KWH),
           result |-> RoundedROI(calculateROI(7,
               [ inverterCost |-> body.inverterCost[1],
                 dailyRunHours |-> body.dailyRunHours[1],
                 yearlyDays |-> body.yearlyDays[1],
                 targetFlow |-> body.targetFlow[1],
                 electricityRate |-> body.electricityRate ])) ]

\* the request bodies of the model
BodyCosts == { <<>>, <<-1>>, <<0>>, <<1>>, <<2000000>>, <<100000000>>, <<100000001>> }
BodyHours == { <<>>, <<0>>, <<1>>, <<24>>, <<25>> }
BodyDays == { <<>>, <<0>>, <<250>> }
BodyFlows == { <<>>, <<0>>, <<10000>>, <<250000>> }
BodyRates == { <<>>, <<80>> }

InitRoute ==
    /\ PowerIdle
    /\ SimIdle
    /\ MetricsIdle
    /\ CurvesIdle
    /\ PageIdle
    /\ ShellIdle
    /\ route \in [ phase : { "request" },
                   body : [ inverterCost : BodyCosts, dailyRunHours : BodyHours,
                            yearlyDays : BodyDays, targetFlow : BodyFlows,
                            electricityRate : BodyRates ] ]

Post ==
    /\ route.phase = "request"
    /\ route' = [ phase |-> "response", body |-> route.body, res |-> PostROI(route.body) ]
    /\ UNCHANGED <<pwVars, simVars, mtVars, cvVars, page, shell>>

NextRoute == Post

SpecRoute == InitRoute /\ [][NextRoute]_vars

\* whether a field is present and within its declared bounds
CostInBounds(body) ==
    body.inverterCost # <<>> /\ body.inverterCost[1] >= 0
        /\ body.inverterCost[1] <= 100000000
HoursInBounds(body) ==
    body.dailyRunHours # <<>> /\ body.dailyRunHours[1] >= 1 /\ body.dailyRunHours[1] <= 24
ValidBody(body) ==
    /\ CostInBounds(body)
    /\ HoursInBounds(body)
    /\ body.yearlyDays # <<>>
    /\ body.targetFlow # <<>>

\* C21: POST /api/calculate/roi answers 400 INVALID_INPUT exactly when a
\* required field is missing or a value is outside its declared bounds
\* (inverterCost in 0..100,000,000, dailyRunHours in 1..24); every other
\* request gets success: true with the calculateROI result.
C21_Validation ==
    route.phase = "response" =>
        IF ValidBody(route.body)
        THEN /\ route.res.status = 200
             /\ route.res.success
        ELSE route.res = InvalidInput

---------------------------------------------------------------------------
(* The simulation page.  page.input holds the state startFlow, targetFlow  *)
(* and mode; page.timer the pending debounce timer (<<>> when none) with   *)
(* the time left and the input its runSimulation closure captured;         *)
(* page.inflight the fetches issued and not yet answered; page.data the    *)
(* input whose response is on display (<<>> before the first response).    *)
(* Time advances in ticks and never passes a timer that is due.            *)

DEBOUNCE_MS == 300
TickMs == 100          \* granularity of the clock
MaxChanges == 3        \* input changes in a run

PageInputs ==
    { [ startFlow |-> 0, targetFlow |-> 20, mode |-> "stable" ],
      [ startFlow |-> 0, targetFlow |-> 25, mode |-> "stable" ],
      [ startFlow |-> 5, targetFlow |-> 25, mode |-> "stable" ],
      [ startFlow |-> 0, targetFlow |-> 20, mode |-> "fast" ] }

\* useState(0), useState(20), useState('stable')
InitialInput == [ startFlow |-> 0, targetFlow |-> 20, mode |-> "stable" ]

\* the page after its first render: the effect has armed the timer
InitPage ==
    /\ PowerIdle
    /\ SimIdle
    /\ MetricsIdle
    /\ CurvesIdle
    /\ RouteIdle
    /\ ShellIdle
    /\ page = [ phase |-> "mounted",
                input |-> InitialInput,
                timer |-> << [ left |-> DEBOUNCE_MS, input |-> InitialInput ] >>,
                quiet |-> 0,
                changes |-> 0,
                sent |-> 0,
                issued |-> 0,
                lastIssued |-> <<>>,
                inflight |-> {},
                failures |-> 0,
                data |-> <<>>,
                loading |-> FALSE ]

\* An input change that re-aims the pending timer without restarting it.
ChangeKeepsDeadline ==
    /\ page.phase = "mounted"
    /\ page.changes < MaxChanges
    /\ \E v \in PageInputs \ { page.input } :
          page' = [ page EXCEPT
                      !.input = v,
                      !.timer = IF page.timer = <<>>
                                THEN << [ left |-> DEBOUNCE_MS, input |-> v ] >>
                                ELSE << [ left |-> page.timer[1].left, input |-> v ] >>,
                      !.quiet = 0,
                      !.changes = page.changes + 1,
                      !.sent = 0 ]
    /\ UNCHANGED <<pwVars, simVars, mtVars, cvVars, route, shell>>

\* setStartFlow / setTargetFlow / setMode with a new value: runSimulation
\* is rebuilt, the effect's cleanup clears the timer and the effect arms a
\* new one
Change ==
    /\ page.phase = "mounted"
    /\ page.changes < MaxChanges
    /\ \E v \in PageInputs \ { page.input } :
          page' = [ page EXCEPT
                      !.input = v,
                      !.timer = << [ left |-> DEBOUNCE_MS, input |-> v ] >>,
                      !.quiet = 0,
                      !.changes = page.changes + 1,
                      !.sent = 0 ]
    /\ UNCHANGED <<pwVars, simVars, mtVars, cvVars, route, shell>>

\* time passes, up to the moment the pending timer is due
Tick ==
    /\ page.phase = "mounted"
    /\ page.timer # <<>> => page.timer[1].left > 0
    /\ LET step == IF page.timer = <<>> THEN TickMs
                   ELSE Min(TickMs, page.timer[1].left)
       IN  page' = [ page EXCEPT
                       !.timer = IF page.timer = <<>> THEN <<>>
                                 ELSE << [ page.timer[1] EXCEPT !.left = @ - step ] >>,
                       !.quiet = Min(page.quiet + step, DEBOUNCE_MS + TickMs) ]
    /\ UNCHANGED <<pwVars, simVars, mtVars, cvVars, route, shell>>

\* the timer callback: runSimulation up to the fetch
TimerFires ==
    /\ page.phase = "mounted"
    /\ page.timer # <<>>
    /\ page.timer[1].left = 0
    /\ page' = [ page EXCEPT
                   !.timer = <<>>,
                   !.loading = TRUE,
                   !.sent = page.sent + 1,
                   !.issued = page.issued + 1,
                   !.lastIssued = << page.timer[1].input >>,
                   !.inflight = page.inflight \cup
                       { [ id |-> page.issued + 1, input |-> page.timer[1].input ] } ]
    /\ UNCHANGED <<pwVars, simVars, mtVars, cvVars, route, shell>>

\* a response arrives: runSimulation from res.json() to the finally block
Respond ==
    /\ page.phase = "mounted"
    /\ \E r \in page.inflight, success \in BOOLEAN :
          page' = [ page EXCEPT
                      !.inflight = page.inflight \ { r },
                      !.data = IF success THEN << r.input >> ELSE page.data,
                      !.failures = IF success THEN page.failures ELSE 1,
                      !.loading = FALSE ]
    /\ UNCHANGED <<pwVars, simVars, mtVars, cvVars, route, shell>>

NextPage ==
    \/ Change
    \/ Tick
    \/ TimerFires
    \/ Respond

SpecPage == InitPage /\ [][NextPage]_vars

\* C22: input changes are debounced by 300 ms: a change cancels the
\* pending request and arms a new one for the latest input, and exactly one
\* request is issued per quiet period of 300 ms, carrying the latest input.
C22_Debounce ==
    page.phase = "mounted" =>
        /\ page.sent <= 1
        /\ page.sent = 0 =>
              /\ page.timer # <<>>
              /\ page.timer[1].input = page.input
              /\ page.timer[1].left = DEBOUNCE_MS - page.quiet
        /\ page.sent = 1 =>
              /\ page.timer = <<>>
              /\ page.quiet >= DEBOUNCE_MS
              /\ page.lastIssued = << page.input >>
        /\ page.quiet > DEBOUNCE_MS => page.sent = 1

\* C22 witness: three changes in quick succession, the initial timer
\* included four timers armed, and a single request once the input is quiet.
C22_Witness ==
    /\ page.phase = "mounted"
    /\ page.changes = 3
    /\ page.issued = 1
    /\ page.sent = 1
    /\ page.quiet > DEBOUNCE_MS
    /\ page.lastIssued = << page.input >>

\* C29: once every issued request has completed (successfully), the page
\* displays the response of the most recently issued request, whatever the
\* order of arrival; and loading is true while any request is in flight.
C29_LatestWins ==
    page.phase = "mounted" =>
        /\ (page.issued > 0 /\ page.inflight = {} /\ page.failures = 0) =>
              page.data = page.lastIssued
        /\ page.inflight # {} => page.loading

---------------------------------------------------------------------------
(* The desktop shell.  shell.nextServer is the forked server process       *)
(* ("undefined" in development, where the server is started elsewhere),    *)
(* shell.listening whether the server answers HTTP on the port,            *)
(* shell.poll where waitForServer stands, shell.mainWindow the window      *)
(* ("undefined" before the first one, "null" after its closed event).      *)

MAX_ATTEMPTS == 30

Platforms == { "darwin", "win32" }

InitShell ==
    /\ PowerIdle
    /\ SimIdle
    /\ MetricsIdle
    /\ CurvesIdle
    /\ RouteIdle
    /\ PageIdle
    /\ \E pf \in Platforms, packaged \in BOOLEAN, up \in BOOLEAN :
          shell = [ phase |-> "starting",
                    platform |-> pf,
                    isDev |-> ~packaged,
                    nextServer |-> "undefined",
                    listening |-> (up /\ ~packaged),
                    attempts |-> 0,
                    poll |-> "none",
                    responded |-> FALSE,
                    mainWindow |-> "undefined" ]

\* nextServer.kill() behind `if (nextServer)`
Kill(sh) ==
    IF sh.nextServer = "undefined" THEN sh
    ELSE [ sh EXCEPT !.nextServer = "killed", !.listening = FALSE ]

\* app.quit(): the before-quit handler runs and the app ends
QuitApp(sh) == [ Kill(sh) EXCEPT !.phase = "quit", !.poll = "none" ]

\* app.whenReady(): startNextServer forks the server when packaged and
\* waitForServer makes its first attempt
WhenReady ==
    /\ shell.phase = "starting"
    /\ shell' = [ shell EXCEPT
                    !.phase = "waiting",
                    !.nextServer = IF shell.isDev THEN "undefined" ELSE "alive",
                    !.attempts = 1,
                    !.poll = "request" ]
    /\ UNCHANGED <<pwVars, simVars, mtVars, cvVars, route, page>>

\* the server starts to answer on the port
ServerListens ==
    /\ shell.phase \in { "waiting", "running" }
    /\ ~shell.listening
    /\ shell.isDev \/ shell.nextServer = "alive"
    /\ shell' = [ shell EXCEPT !.listening = TRUE ]
    /\ UNCHANGED <<pwVars, simVars, mtVars, cvVars, route, page>>

\* http.get calls back with a response: waitForServer resolves and the
\* whenReady continuation creates the window
PollResponse ==
    /\ shell.phase = "waiting"
    /\ shell.poll = "request"
    /\ shell.listening
    /\ shell' = [ shell EXCEPT
                    !.phase = "running",
                    !.poll = "none",
                    !.responded = TRUE,
                    !.mainWindow = "open" ]
    /\ UNCHANGED <<pwVars, simVars, mtVars, cvVars, route, page>>

\* http.get fails: another attempt in 500 ms, or reject and app.quit()
PollError ==
    /\ shell.phase = "waiting"
    /\ shell.poll = "request"
    /\ ~shell.listening
    /\ shell' = IF shell.attempts < MAX_ATTEMPTS
                THEN [ shell EXCEPT !.poll = "timer" ]
                ELSE QuitApp(shell)
    /\ UNCHANGED <<pwVars, simVars, mtVars, cvVars, route, page>>

\* setTimeout(checkServer, 500) fires
PollTimer ==
    /\ shell.phase = "waiting"
    /\ shell.poll = "timer"
    /\ shell' = [ shell EXCEPT !.attempts = shell.attempts + 1, !.poll = "request" ]
    /\ UNCHANGED <<pwVars, simVars, mtVars, cvVars, route, page>>

\* the 'error' event of the forked process: reject and app.quit()
ServerError ==
    /\ shell.phase = "waiting"
    /\ shell.nextServer = "alive"
    /\ ~shell.listening
    /\ shell' = QuitApp(shell)
    /\ UNCHANGED <<pwVars, simVars, mtVars, cvVars, route, page>>

\* the user closes the window: 'closed', then window-all-closed
CloseWindow ==
    /\ shell.phase = "running"
    /\ shell.mainWindow = "open"
    /\ LET closed == [ shell EXCEPT !.mainWindow = "null" ]
       IN  shell' = IF shell.platform # "darwin" THEN QuitApp(closed) ELSE Kill(closed)
    /\ UNCHANGED <<pwVars, simVars, mtVars, cvVars, route, page>>

\* the dock icon is clicked (macOS)
Activate ==
    /\ shell.phase \in { "waiting", "running" }
    /\ shell.platform = "darwin"
    /\ shell' = IF shell.mainWindow = "null"
                THEN [ shell EXCEPT !.mainWindow = "open" ]
                ELSE shell
    /\ UNCHANGED <<pwVars, simVars, mtVars, cvVars, route, page>>

\* the user quits the app: before-quit, and the windows go with the app
UserQuits ==
    /\ shell.phase \in { "waiting", "running" }
    /\ shell' = QuitApp([ shell EXCEPT
                            !.mainWindow = IF @ = "open" THEN "null" ELSE @ ])
    /\ UNCHANGED <<pwVars, simVars, mtVars, cvVars, route, page>>

NextShell ==
    \/ WhenReady
    \/ ServerListens
    \/ PollResponse
    \/ PollError
    \/ PollTimer
    \/ ServerError
    \/ CloseWindow
    \/ Activate
    \/ UserQuits

SpecShell == InitShell /\ [][NextShell]_vars

\* a step that creates a window
CreatesWindow == shell.mainWindow # "open" /\ shell'.mainWindow = "open"

\* C30: a window is only created while the backing server is available:
\* the first window only after waitForServer has received a response (the
\* app quitting without a window after 30 failed attempts), and no window
\* after the server process has been killed by the window-all-closed or
\* before-quit handlers.
C30_WindowNeedsServer ==
    [][ /\ CreatesWindow => (shell'.responded /\ shell'.nextServer # "killed")
        /\ shell'.attempts <= MAX_ATTEMPTS
        /\ (shell'.phase = "quit" /\ ~shell'.responded) =>
               shell'.mainWindow = "undefined" ]_vars

---------------------------------------------------------------------------
(* The library as a whole: callers of the power model, of the simulation,  *)
(* of the metrics and of the curve fitting are in flight at the same time, *)
(* and their steps interleave in any order (the sampling loops one         *)
(* iteration at a time).  The constant tables are definitions of this      *)
(* module and the arguments are the variables pwIn, simIn, mtIn and cvIn.  *)

ConcurrentSimCalls ==
    { [ fn |-> "simulateTransient", startFlow |-> 50000, targetFlow |-> 200000,
        mode |-> "fast", duration |-> <<300>>, stepSize |-> <<100>> ],
      [ fn |-> "simulateTransient", startFlow |-> 100000, targetFlow |-> 100000,
        mode |-> "stable", duration |-> <<300>>, stepSize |-> <<100>> ],
      [ fn |-> "simulateCaseComparison", startFlow |-> 200000, targetFlow |-> 50000,
        duration |-> <<300>> ],
      [ fn |-> "simulateCaseComparison", startFlow |-> 100000, targetFlow |-> 100000,
        duration |-> <<300>> ],
      [ fn |-> "calculateDynamicOvershoot", baseOvershoot |-> 150000,
        startFlow |-> 0, targetFlow |-> 205000 ] }

Init ==
    /\ pwIn = [ variant |-> 9, targetFlow |-> 10 * ONE, ratedFlow |-> PUMP_RATED_FLOW,
                params |-> [ targetFlow |-> 10 * ONE, inverterCost |-> 2000000,
                             dailyRunHours |-> 8, yearlyDays |-> 250,
                             electricityRate |-> <<>> ] ]
    /\ pwOut = [ op |-> "none" ]
    /\ simIn \in ConcurrentSimCalls
    /\ simPc = "call"
    /\ simLoc = [ fn |-> "none" ]
    /\ t = DZero
    /\ timeSeries = <<>>
    /\ caseA = <<>>
    /\ caseB = <<>>
    /\ caseC = <<>>
    /\ simOut = [ op |-> "none" ]
    /\ mtIn = [ timeSeries |-> EverySecond(<<0, 100000, 220000, 190000, 202000, 200000>>),
                targetValue |-> 200000, startValue |-> <<0>> ]
    /\ mtOut = [ op |-> "none" ]
    /\ cvIn = << Pt(3, 0), Pt(1, 5), Pt(2, 2), Pt(2, 5) >>
    /\ cvOut = [ op |-> "none" ]
    /\ AppIdle

Next == NextPower \/ NextROI \/ NextSim \/ NextDynamics \/ NextMetrics \/ NextCurves

Spec == Init /\ [][Next]_vars

=============================================================================
